---- MODULE Spec2Model ----
(***************************************************************************)
(* Snapshot cache / coalescing service of nvidia-license-server-exporter   *)
(* (internal/snapshot.Service) together with its two consumers: the pull   *)
(* collector (Collector.Collect -> Service.Get) and the OTEL pusher        *)
(* (MetricsPusher.refreshOnce -> Service.Refresh).                         *)
(*                                                                         *)
(* A snapshot pointer is modelled by the record [id, CollectedAt]: id is   *)
(* the ordinal of the Fetcher call that built it (pointer identity), and   *)
(* id = 0 is the nil pointer.  Times are integers; 0 is the zero           *)
(* time.Time, the clock starts at 1.  An error value is the ordinal of the *)
(* Fetcher call that produced it, 0 is the nil error.                      *)
(***************************************************************************)
EXTENDS Integers, FiniteSets, Sequences, TLC

\* ------------------------------------------------------------------ bounds
MaxTime == 3        \* the clock runs from 1 to MaxTime
MaxFetches == 3     \* Fetcher.FetchSnapshot is called at most this often
CacheTTL == 2       \* Service.cacheTTL, in clock ticks (always > 0)
ScrapeTimeout == 2  \* the timeout of a scrape's and of a push refresh's context, in clock ticks

Scrapers == {1, 2}  \* goroutines running Collector.Collect (concurrent scrapes)
Pusher == 3         \* the goroutine started by MetricsPusher.Start
Callers == Scrapers \cup {Pusher}

VARIABLES
    now,            \* wall clock
    snapshot,       \* Service.snapshot
    meta,           \* Service.meta
    cachedAt,       \* Service.cachedAt
    sfm,            \* Service.sf: call registered under key "refresh", 0 = none
    sfcall,         \* singleflight call objects: id -> [done, val, err] (+ history: ok, prev)
    fetcherCalls,   \* number of Fetcher.FetchSnapshot invocations so far
    pc,             \* position of each caller
    myCall,         \* singleflight call the caller owns or waits on, 0 = none
    start,          \* owner's `start := time.Now()`
    ret,            \* last value returned to the caller
    deadline,       \* the deadline of the context the caller created for its call, 0 = none
    \* ---- history variables (observations only, never read by the actions' code)
    seen,           \* what the Service held when the caller's call was issued
    nfetch,         \* FetchSnapshot invocations made by the caller's current call
    window,         \* fetch that was in flight when the caller reached sf.Do
    fetchesIn,      \* per coalescing window: FetchSnapshot invocations made in it
    last,           \* the Fetcher call that settled last: outcome and state it met
    everOk          \* some Fetcher call has succeeded

svcVars  == <<snapshot, meta, cachedAt>>
sfVars   == <<sfm, sfcall, fetcherCalls>>
procVars == <<pc, myCall, start, ret, deadline>>
histVars == <<seen, nfetch, window, fetchesIn, last, everOk>>

VARIABLES
    parallelFetches, \* Client.parallelFetches
    fpc,             \* where the goroutine running FetchSnapshot stands
    virtualGroups,   \* FetchSnapshot's virtualGroups (ids, in upstream order)
    work,            \* per fan-out phase: the closures its loop hands to errgroup's Go
    tstate,          \* per closure: "pending", "running", "processing", "ok", "failed"
    todo,            \* per phase-3 closure: leases of its response not yet handled
    groupErr,        \* per phase: its errgroup's err (set once)
    cancelled,       \* per phase: its errgroup's context has been cancelled
    serversByVG,     \* FetchSnapshot's serversByVG
    seenLeaseIDs,    \* fetchActiveLeaseUsage's seenLeaseIDs
    serverTotals,    \* fetchActiveLeaseUsage's serverTotals
    featureTotals,   \* fetchActiveLeaseUsage's featureTotals
    total,           \* fetchActiveLeaseUsage's total
    newSnapshot,     \* the Snapshot FetchSnapshot is filling
    result,          \* what FetchSnapshot returned
    upstream,        \* the answers of the upstream when they are fixed in advance (empty: any)
    \* ---- history variables (observations only, never read by the actions' code)
    offered,         \* leases that entered the locked section, in that order, and their effect
    failOrder        \* the sub-fetches that failed, in the order they failed

clientVars == <<parallelFetches, fpc, virtualGroups, work, tstate, todo, groupErr, cancelled,
                serversByVG>>
leaseVars  == <<seenLeaseIDs, serverTotals, featureTotals, total>>
fetchHist  == <<offered, failOrder>>
fetchVars  == <<clientVars, leaseVars, newSnapshot, result, fetchHist, upstream>>

serviceVars == <<now, svcVars, sfVars, procVars, histVars>>

VARIABLES
    obsArgs,         \* the arguments of a buildObservations call: orgName, snap, meta
    observations,    \* what buildObservations returned (empty: not called)
    environ,         \* the process environment: LISTEN_ADDRESS and PORT
    listenAddress,   \* what defaultListenAddress returned (empty: not called)
    pusher           \* the MetricsPusher: its loop, its channels and its Shutdown call

startVars == <<obsArgs, observations, environ, listenAddress, pusher>>

vars     == <<serviceVars, fetchVars, startVars>>

\* ------------------------------------------------------------------ values
NoErr == 0
NilSnapshot == [id |-> 0, CollectedAt |-> 0]
ZeroMeta == [Up |-> 0, DurationSeconds |-> 0, Timestamp |-> 0, CacheHit |-> FALSE]
NilResult == [snapshot |-> NilSnapshot, meta |-> ZeroMeta, err |-> NoErr]
FetchIds == 1..MaxFetches
NoCall == [done |-> FALSE, val |-> [snapshot |-> NilSnapshot, meta |-> ZeroMeta], err |-> NoErr,
           ok |-> FALSE, prev |-> NilSnapshot, cancelled |-> FALSE]
NoLast == [id |-> 0, ok |-> FALSE, fetched |-> NilSnapshot, prev |-> NilSnapshot,
           at |-> 0, duration |-> 0, cancelled |-> FALSE]
NoSeen == [snapId |-> 0, fresh |-> FALSE, afterOk |-> FALSE, failed |-> 0]

\* ------------------------------------------------------------ Service code
\* Get's freshness test: snapshot != nil && time.Since(cachedAt) < cacheTTL
FreshOffByOne(snap, cAt, t) == snap # NilSnapshot /\ t - cAt <= CacheTTL
FreshTooShort(snap, cAt, t) == snap # NilSnapshot /\ t - cAt < CacheTTL - 1
Fresh(snap, cAt, t) == snap # NilSnapshot /\ t - cAt < CacheTTL

\* Get's cache-hit return value
CacheHitResultUp(snap, m) ==
    [snapshot |-> snap,
     meta |-> [m EXCEPT !.CacheHit = TRUE, !.DurationSeconds = 0, !.Up = 1],
     err |-> NoErr]
CacheHitResult(snap, m) ==
    [snapshot |-> snap,
     meta |-> [m EXCEPT !.CacheHit = TRUE, !.DurationSeconds = 0],
     err |-> NoErr]

\* singleflight: is a call registered under the key?
InFlightNever == FALSE
InFlightOnceFetched == sfm # 0 /\ \E p \in Callers : pc[p] = "committed" /\ myCall[p] = sfm
InFlight == sfm # 0

\* Refresh, fetchErr == nil: the new cache fields and the closure's result
SuccessOutcomeNoCommit(fetched, duration, t) ==
    LET m == [Up |-> 1, DurationSeconds |-> duration,
              Timestamp |-> fetched.CollectedAt, CacheHit |-> FALSE]
    IN [snapshot |-> snapshot, meta |-> m, cachedAt |-> cachedAt,
        val |-> [snapshot |-> fetched, meta |-> m], err |-> NoErr]
SuccessOutcomeInPlace(fetched, duration, t) ==
    LET m == [Up |-> 1, DurationSeconds |-> duration,
              Timestamp |-> fetched.CollectedAt, CacheHit |-> FALSE]
        written == IF snapshot = NilSnapshot THEN fetched
                   ELSE [snapshot EXCEPT !.CollectedAt = fetched.CollectedAt]
    IN [snapshot |-> written, meta |-> m, cachedAt |-> t,
        val |-> [snapshot |-> written, meta |-> m], err |-> NoErr]
SuccessOutcomeCommitTime(fetched, duration, t) ==
    LET m == [Up |-> 1, DurationSeconds |-> duration,
              Timestamp |-> t, CacheHit |-> FALSE]
    IN [snapshot |-> fetched, meta |-> m, cachedAt |-> t,
        val |-> [snapshot |-> fetched, meta |-> m], err |-> NoErr]
SuccessOutcome(fetched, duration, t) ==
    LET m == [Up |-> 1, DurationSeconds |-> duration,
              Timestamp |-> fetched.CollectedAt, CacheHit |-> FALSE]
    IN [snapshot |-> fetched, meta |-> m, cachedAt |-> t,
        val |-> [snapshot |-> fetched, meta |-> m], err |-> NoErr]

\* Refresh, fetchErr != nil and s.snapshot != nil: stale fallback
StaleOutcomeAttemptTime(duration, t) ==
    LET m == [Up |-> 0, DurationSeconds |-> duration,
              Timestamp |-> t, CacheHit |-> FALSE]
    IN [snapshot |-> snapshot, meta |-> m, cachedAt |-> cachedAt,
        val |-> [snapshot |-> snapshot, meta |-> m], err |-> NoErr]
StaleOutcome(duration, t) ==
    LET m == [Up |-> 0, DurationSeconds |-> duration,
              Timestamp |-> snapshot.CollectedAt, CacheHit |-> FALSE]
    IN [snapshot |-> snapshot, meta |-> m, cachedAt |-> cachedAt,
        val |-> [snapshot |-> snapshot, meta |-> m], err |-> NoErr]

\* Refresh, fetchErr != nil and s.snapshot == nil: commit a down Meta, return the error
ErrorOutcomeNoMeta(duration, t, fetchErr) ==
    [snapshot |-> snapshot, meta |-> meta, cachedAt |-> cachedAt,
     val |-> [snapshot |-> NilSnapshot, meta |-> ZeroMeta], err |-> fetchErr]
ErrorOutcome(duration, t, fetchErr) ==
    [snapshot |-> snapshot,
     meta |-> [Up |-> 0, DurationSeconds |-> duration, Timestamp |-> t, CacheHit |-> FALSE],
     cachedAt |-> cachedAt,
     val |-> [snapshot |-> NilSnapshot, meta |-> ZeroMeta], err |-> fetchErr]

\* Refresh, fetchErr != nil
FailureOutcomeAlwaysError(duration, t, fetchErr) == ErrorOutcome(duration, t, fetchErr)
FailureOutcomeAlwaysStale(duration, t, fetchErr) == StaleOutcome(duration, t)
FailureOutcome(duration, t, fetchErr) ==
    IF snapshot # NilSnapshot THEN StaleOutcome(duration, t)
                              ELSE ErrorOutcome(duration, t, fetchErr)

\* Refresh after sf.Do: if err != nil { return nil, Meta{}, err }; return res...
RefreshReturn(c) ==
    IF c.err # NoErr
    THEN [snapshot |-> NilSnapshot, meta |-> ZeroMeta, err |-> c.err]
    ELSE [snapshot |-> c.val.snapshot, meta |-> c.val.meta, err |-> NoErr]

\* Latest(): <<snapshot, meta, ok>>
LatestOkAfterAnyFetch ==
    IF meta = ZeroMeta THEN <<NilSnapshot, ZeroMeta, FALSE>> ELSE <<snapshot, meta, TRUE>>
Latest ==
    IF snapshot = NilSnapshot THEN <<NilSnapshot, ZeroMeta, FALSE>> ELSE <<snapshot, meta, TRUE>>

\* Meta()
Meta == meta

\* ----------------------------------------------------------- Fetcher values
MaxLeases == 2      \* an active-lease response carries at most this many leases

defaultParallelFetches == 8
\* values of Config.ParallelFetches the client is built with
ConfiguredParallel == {-1, 0, 1, 2}
Phases == {2, 3, 4}     \* the fan-out phases: servers, active leases, pools

NilError == [phase |-> 0, task |-> 0]
\* the error returned by the closure `task` of `phase` (phase 1: listVirtualGroups)
ErrorOf(phase, task) == [phase |-> phase, task |-> task]

\* upstream payloads: virtual groups, license servers, active leases, license pools
Group1 == [ID |-> 1, Name |-> "g1"]
Group2 == [ID |-> 2, Name |-> "g2"]
VirtualGroupLists == {<< >>, <<Group1>>, <<Group1, Group2>>}

Feature1 == [ID |-> "f1", FeatureName |-> "GRID", TotalQuantity |-> 100]
Srv1 == [ID |-> "srv-1", Name |-> "one", VirtualGroupID |-> 0, VirtualGroupName |-> "",
         ServiceInstanceID |-> "si-1", LicenseServerFeatures |-> <<Feature1>>]
Srv2 == [ID |-> "srv-2", Name |-> "two", VirtualGroupID |-> 1, VirtualGroupName |-> "g1",
         ServiceInstanceID |-> "si-2", LicenseServerFeatures |-> << >>]
Srv3 == [ID |-> "srv-3", Name |-> "three", VirtualGroupID |-> 0, VirtualGroupName |-> " ",
         ServiceInstanceID |-> " ", LicenseServerFeatures |-> << >>]
ServerLists(vg) ==
    IF vg = 1 THEN {<<Srv1>>, <<Srv1, Srv2>>} ELSE {<< >>, <<Srv3>>}

\* a lease together with the license_server_id of the client record carrying it
LeaseRecords ==
    { [LicenseServerID |-> "srv-1", LeaseID |-> "L1", LeaseCount |-> 3,  FeatureName |-> "GRID"],
      [LicenseServerID |-> " ",     LeaseID |-> "L2", LeaseCount |-> -2, FeatureName |-> "GRID"],
      [LicenseServerID |-> "srv-2", LeaseID |-> " ",  LeaseCount |-> 0,  FeatureName |-> ""] }
SeqsUpTo(S, n) == UNION {[1..k -> S] : k \in 0..n}
LeaseResponses == SeqsUpTo(LeaseRecords, MaxLeases)

\* a pool feature together with the id of the pool carrying it
Pool1 == [PoolID |-> "p1", TotalAllotment |-> 100, InUse |-> 10]
Pool2 == [PoolID |-> "p2", TotalAllotment |-> 50,  InUse |-> 80]
PoolLists == {<< >>, <<Pool1>>, <<Pool2>>, <<Pool1, Pool2>>}

EmptyMap == << >>
NilFetched ==
    [nonNil |-> FALSE, ActiveLeaseTotal |-> 0, ServerActiveLeases |-> {},
     ServerFeatureActiveLeases |-> {}, PoolUsage |-> << >>, ServerUsage |-> << >>,
     ServerFeatureCapacity |-> << >>]
\* snapshot := &Snapshot{...}
NewSnapshot == [NilFetched EXCEPT !.nonNil = TRUE]
NotReturned == [returned |-> FALSE, snapshot |-> NilFetched, err |-> NilError]

\* ------------------------------------------------------------- Fetcher code
\* NewClient: parallelFetches <= 0 selects the default
NewClient(ParallelFetches) ==
    IF ParallelFetches <= 0 THEN defaultParallelFetches ELSE ParallelFetches

\* strings.TrimSpace, on the strings the payloads use
TrimSpace(s) == IF s = " " THEN "" ELSE s

RECURSIVE firstNonEmptyNonBlank(_)
firstNonEmptyNonBlank(values) ==
    IF values = << >> THEN ""
    ELSE IF TrimSpace(Head(values)) # "" THEN TrimSpace(Head(values))
    ELSE firstNonEmptyNonBlank(Tail(values))

\* m[k] += v on a Go map (a missing key reads as 0)
AddToOverwrite(m, k, v) ==
    [x \in DOMAIN m \cup {k} |-> IF x = k THEN v ELSE m[x]]
AddToFirstWins(m, k, v) ==
    [x \in DOMAIN m \cup {k} |-> IF x \in DOMAIN m THEN m[x] ELSE v]
AddTo(m, k, v) ==
    [x \in DOMAIN m \cup {k} |->
        (IF x \in DOMAIN m THEN m[x] ELSE 0) + (IF x = k THEN v ELSE 0)]

\* phase 2: a server without group id / name inherits them from the listed group
BackfillNone(servers, vg) == servers
Backfill(servers, vg) ==
    [i \in DOMAIN servers |->
        [servers[i] EXCEPT
            !.VirtualGroupID = IF @ = 0 THEN vg.ID ELSE @,
            !.VirtualGroupName = IF @ = "" THEN vg.Name ELSE @]]

\* phase 3: the distinct non-blank service-instance ids of a group's servers
ServiceInstanceIDs(servers) ==
    {servers[i].ServiceInstanceID : i \in {j \in DOMAIN servers :
                                            TrimSpace(servers[j].ServiceInstanceID) # ""}}

\* phase 3: the server a client record's leases belong to, "" = none (skipped)
ResolveServer(lease, servers) ==
    LET serverID == TrimSpace(lease.LicenseServerID)
        serverByID == {servers[i].ID : i \in DOMAIN servers}
    IN  IF serverID = "" /\ Cardinality(serverByID) = 1
        THEN CHOOSE onlyID \in serverByID : TRUE
        ELSE serverID

\* phase 3: leaseCount <= 0 counts as 1
NormalizeLeaseCountRaw(leaseCount) == leaseCount
NormalizeLeaseCount(leaseCount) == IF leaseCount <= 0 THEN 1 ELSE leaseCount

\* server := serverByID[serverID] (a missing key reads as the zero licenseServer)
ZeroServer == [ID |-> "", Name |-> "", VirtualGroupID |-> 0, VirtualGroupName |-> "",
               ServiceInstanceID |-> "", LicenseServerFeatures |-> << >>]
ServerByID(servers, serverID) ==
    IF \E i \in DOMAIN servers : servers[i].ID = serverID
    THEN servers[CHOOSE i \in DOMAIN servers :
                    servers[i].ID = serverID /\ \A j \in DOMAIN servers :
                                                  servers[j].ID = serverID => j <= i]
    ELSE ZeroServer

\* phase 3: the key of featureTotals (the client record's license_server_name and
\* the feature's product name and license type, which the payloads here leave
\* empty, are left out)
FeatureKey(virtualGroupID, servers, serverID, lease) ==
    LET server == ServerByID(servers, serverID)
        virtualGroupName == servers[1].VirtualGroupName
        serverName == firstNonEmptyNonBlank(<<"", server.Name>>)
    IN  [virtualGroupID |-> virtualGroupID,
         virtualGroupName |-> firstNonEmptyNonBlank(<<server.VirtualGroupName, virtualGroupName>>),
         serverID |-> serverID,
         serverName |-> IF serverName = "" THEN "unknown" ELSE serverName,
         featureName |-> firstNonEmptyNonBlank(<<firstNonEmptyNonBlank(<<lease.FeatureName, "">>),
                                               "unknown">>)]

\* phase 3: is the lease dropped as already seen
IsDuplicateNever(leaseID, seenIDs) == FALSE
IsDuplicate(leaseID, seenIDs) == leaseID # "" /\ leaseID \in seenIDs

\* phase 4: available of a pool-usage row
PoolAvailableUnclamped(allocated, inUse) == allocated - inUse
PoolAvailable(allocated, inUse) ==
    IF allocated - inUse < 0 THEN 0 ELSE allocated - inUse

maxFloat64Second(a, b) == b
maxFloat64(a, b) == IF a > b THEN a ELSE b

RECURSIVE SumField(_, _)
SumField(rows, f) == IF rows = << >> THEN 0 ELSE rows[1][f] + SumField(Tail(rows), f)

\* phase 4: the pool-usage rows of one server
PoolUsageRows(server, pools) ==
    [i \in DOMAIN pools |->
        [VirtualGroupID |-> server.VirtualGroupID, VirtualGroupName |-> server.VirtualGroupName,
         ServerID |-> server.ID, ServerName |-> server.Name,
         PoolID |-> pools[i].PoolID,
         Allocated |-> pools[i].TotalAllotment, InUse |-> pools[i].InUse,
         Available |-> PoolAvailable(pools[i].TotalAllotment, pools[i].InUse)]]

\* phase 4: the server-usage row, with the active-lease override
ServerUsageRowPoolOnly(server, pools, activeByServer) ==
    [VirtualGroupID |-> server.VirtualGroupID, VirtualGroupName |-> server.VirtualGroupName,
         ServerID |-> server.ID, ServerName |-> server.Name,
     Allocated |-> SumField(pools, "TotalAllotment"), InUse |-> SumField(pools, "InUse"),
     Available |-> maxFloat64(0, SumField(pools, "TotalAllotment") - SumField(pools, "InUse"))]
ServerUsageRow(server, pools, activeByServer) ==
    LET serverAllocated == SumField(pools, "TotalAllotment")
        serverInUse == SumField(pools, "InUse")
        serverUsage == [VirtualGroupID |-> server.VirtualGroupID, VirtualGroupName |-> server.VirtualGroupName,
         ServerID |-> server.ID, ServerName |-> server.Name,
                        Allocated |-> serverAllocated, InUse |-> serverInUse,
                        Available |-> maxFloat64(0, serverAllocated - serverInUse)]
    IN  IF server.ID \in DOMAIN activeByServer
        THEN [serverUsage EXCEPT
                !.InUse = activeByServer[server.ID],
                !.Available = maxFloat64(0, serverAllocated - activeByServer[server.ID])]
        ELSE serverUsage

\* phase 4: one capacity row per declared server feature
ServerFeatureCapacityRows(server) ==
    [i \in DOMAIN server.LicenseServerFeatures |->
        [VirtualGroupID |-> server.VirtualGroupID, VirtualGroupName |-> server.VirtualGroupName,
         ServerID |-> server.ID, ServerName |-> server.Name,
         FeatureName |-> server.LicenseServerFeatures[i].FeatureName,
         TotalQuantity |-> server.LicenseServerFeatures[i].TotalQuantity]]

\* fetchActiveLeaseUsage's serverSnapshots and featureSnapshots (built in map order)
ServerActiveLeaseRows(byVG, totals) ==
    UNION {{[VirtualGroupID |-> g, VirtualGroupName |-> byVG[g][i].VirtualGroupName,
             ServerID |-> byVG[g][i].ID, ServerName |-> byVG[g][i].Name,
             ActiveLeases |-> totals[byVG[g][i].ID]] :
                i \in {j \in DOMAIN byVG[g] : byVG[g][j].ID \in DOMAIN totals}} :
           g \in DOMAIN byVG}
FeatureActiveLeaseRows(totals) ==
    {[VirtualGroupID |-> k.virtualGroupID, VirtualGroupName |-> k.virtualGroupName,
      ServerID |-> k.serverID, ServerName |-> k.serverName,
      FeatureName |-> k.featureName, ActiveLeases |-> totals[k]] : k \in DOMAIN totals}

\* the state of the client after NewClient(cfg)
ClientIdle(ParallelFetches) ==
    /\ parallelFetches = NewClient(ParallelFetches)
    /\ fpc = "idle"
    /\ virtualGroups = << >>
    /\ work = [ph \in Phases |-> << >>]
    /\ tstate = [ph \in Phases |-> << >>]
    /\ todo = << >>
    /\ groupErr = [ph \in Phases |-> NilError]
    /\ cancelled = [ph \in Phases |-> FALSE]
    /\ serversByVG = EmptyMap
    /\ seenLeaseIDs = {}
    /\ serverTotals = EmptyMap
    /\ featureTotals = EmptyMap
    /\ total = 0
    /\ newSnapshot = NilFetched
    /\ result = NotReturned
    /\ offered = << >>
    /\ failOrder = << >>

\* ------------------------------------------------------------------- Init
\* the Service after NewService
NewService ==
    /\ now = 1
    /\ snapshot = NilSnapshot
    /\ meta = ZeroMeta
    /\ cachedAt = 0
    /\ sfm = 0
    /\ sfcall = [c \in FetchIds |-> NoCall]
    /\ fetcherCalls = 0
    /\ pc = [p \in Callers |-> "idle"]
    /\ myCall = [p \in Callers |-> 0]
    /\ start = [p \in Callers |-> 0]
    /\ ret = [p \in Callers |-> NilResult]
    /\ deadline = [p \in Callers |-> 0]
    /\ seen = [p \in Callers |-> NoSeen]
    /\ nfetch = [p \in Callers |-> 0]
    /\ window = [p \in Callers |-> 0]
    /\ fetchesIn = [c \in FetchIds |-> 0]
    /\ last = NoLast
    /\ everOk = FALSE

\* the MetricsPusher after NewMetricsPusher: no goroutine, cancel is nil, done is
\* open.  loop is where the goroutine of Start stands, tick the tick buffered in
\* ticker.C, shutdown where the Shutdown call stands and err what it returned;
\* issued, served and early are history: the refreshOnce calls made, the ticks
\* received, and whether Shutdown's context expired before done was closed.
NewMetricsPusher ==
    [loop |-> "new", cancelled |-> FALSE, done |-> FALSE, ticking |-> FALSE, tick |-> 0,
     shutdown |-> "no", expired |-> FALSE, err |-> "none",
     issued |-> 0, served |-> 0, early |-> FALSE]

\* no buildObservations call and no defaultListenAddress call is under study, and
\* the pusher has not been started
NotStarted ==
    /\ obsArgs = << >>
    /\ observations = << >>
    /\ environ = << >>
    /\ listenAddress = << >>
    /\ pusher = NewMetricsPusher

\* the upstream answers each request as it pleases
AnyUpstream == upstream = << >>

\* main: the client is built from the configuration, the Service around it
Init == NewService /\ ClientIdle(0) /\ NotStarted /\ AnyUpstream

\* what the Service holds at the moment a call is issued
Observe ==
    [snapId |-> snapshot.id,
     fresh |-> snapshot # NilSnapshot /\ now - cachedAt < CacheTTL,
     afterOk |-> everOk,
     failed |-> 0]

\* the same for a Get, which finds the cached snapshot expired after a refresh
\* has failed: that refresh
ObserveGet ==
    [Observe EXCEPT !.failed = IF snapshot # NilSnapshot /\ now - cachedAt >= CacheTTL
                                  /\ last.id # 0 /\ ~last.ok
                               THEN last.id ELSE 0]

\* ---------------------------------------------------------------- actions
\* Idle scrapers hold no state and are interchangeable: the next scrape is taken
\* by the idle scraper of lowest index.
NextIdle(p) == pc[p] = "idle" /\ \A q \in Scrapers : q < p => pc[q] # "idle"

\* A caller is blocked when it is between calls, inside the upstream fetch
\* (network I/O) or parked on the in-flight call; everywhere else it is running
\* (a caller that holds its result is running until it goes back to idle).
Blocked(p) ==
    \/ pc[p] \in {"idle", "fetching"}
    \/ pc[p] = "waiting" /\ ~sfcall[myCall[p]].done

\* s.mu.  Get, Latest and Meta take the read lock, and fn the write lock, only
\* around their accesses to the cached fields: every locked section lies inside
\* one step, and fn calls FetchSnapshot before it locks, so a caller inside the
\* fetch does not hold s.mu.
HoldsMuWhileFetching(p) == pc[p] = "fetching"
HoldsMu(p) == FALSE
\* s.mu.RLock() / s.mu.Lock() by p returns: no other caller holds the lock
MuFree(p) == \A q \in Callers \ {p} : ~HoldsMu(q)

\* ctx, cancel := context.WithTimeout(context.Background(), timeout)
WithTimeout(t) == t + ScrapeTimeout
\* ctx.Done() is closed: the deadline of the caller's context has passed
CtxDone(p) == deadline[p] # 0 /\ now >= deadline[p]
\* fn is the closure of the caller that started the call, and the ctx it hands to
\* FetchSnapshot is that caller's
CtxPassedWaiters(p) ==
    IF \E q \in Callers : pc[q] = "waiting" /\ myCall[q] = myCall[p]
    THEN CHOOSE q \in Callers : pc[q] = "waiting" /\ myCall[q] = myCall[p]
    ELSE p
CtxPassed(p) == p

\* Time passes.  One tick is long compared with any computation, so the clock
\* advances only while every caller is blocked.
Tick ==
    /\ now < MaxTime
    /\ \A p \in Callers : Blocked(p)
    /\ now' = now + 1
    /\ UNCHANGED <<svcVars, sfVars, procVars, histVars, fetchVars, startVars>>

\* Service.Get up to its return or its call of Refresh
Get(p) ==
    /\ MuFree(p)
    /\ seen' = [seen EXCEPT ![p] = ObserveGet]
    /\ deadline' = [deadline EXCEPT ![p] = WithTimeout(now)]
    /\ IF Fresh(snapshot, cachedAt, now)
       THEN /\ pc' = [pc EXCEPT ![p] = "done"]
            /\ ret' = [ret EXCEPT ![p] = CacheHitResult(snapshot, meta)]
       ELSE /\ pc' = [pc EXCEPT ![p] = "refresh"]
            /\ ret' = ret
    /\ UNCHANGED <<now, svcVars, sfVars, myCall, start, nfetch, window, fetchesIn, last, everOk, fetchVars, startVars>>

\* s.sf.Do("refresh", fn), a call is in flight: wait on it
DoJoin(p) ==
    /\ InFlight
    /\ pc' = [pc EXCEPT ![p] = "waiting"]
    /\ myCall' = [myCall EXCEPT ![p] = sfm]
    /\ window' = [window EXCEPT ![p] = sfm]
    /\ UNCHANGED <<now, svcVars, sfVars, start, ret, nfetch, fetchesIn, last, everOk, fetchVars, startVars>>

\* s.sf.Do("refresh", fn), no call in flight: register one and run fn up to
\* the invocation of s.fetcher.FetchSnapshot(ctx)
DoStart(p) ==
    /\ ~InFlight
    /\ fetcherCalls < MaxFetches
    /\ LET c == fetcherCalls + 1 IN
       /\ fetcherCalls' = c
       /\ sfm' = c
       /\ myCall' = [myCall EXCEPT ![p] = c]
       /\ window' = [window EXCEPT ![p] = IF sfm # 0 THEN sfm ELSE c]
       /\ fetchesIn' = [fetchesIn EXCEPT ![IF sfm # 0 THEN sfm ELSE c] = @ + 1]
    /\ start' = [start EXCEPT ![p] = now]
    /\ nfetch' = [nfetch EXCEPT ![p] = @ + 1]
    /\ pc' = [pc EXCEPT ![p] = "fetching"]
    /\ UNCHANGED <<now, svcVars, sfcall, ret, last, everOk, fetchVars, startVars>>

\* the pull consumer: Collector.Collect calls Get
Collect(p) ==
    /\ NextIdle(p)
    /\ Get(p)

\* Get found no fresh snapshot and calls Refresh, which coalesces
GetJoin(p) ==
    /\ pc[p] = "refresh"
    /\ DoJoin(p)
    /\ UNCHANGED <<seen, deadline>>

\* Get found no fresh snapshot and calls Refresh, which starts the fetch
GetStart(p) ==
    /\ pc[p] = "refresh"
    /\ DoStart(p)
    /\ UNCHANGED <<seen, deadline>>

\* the push consumer: MetricsPusher.refreshOnce calls Refresh, which coalesces
refreshOnceJoin ==
    /\ pc[Pusher] = "idle"
    /\ seen' = [seen EXCEPT ![Pusher] = Observe]
    /\ deadline' = [deadline EXCEPT ![Pusher] = WithTimeout(now)]
    /\ DoJoin(Pusher)

\* the push consumer: MetricsPusher.refreshOnce calls Refresh, which starts the fetch
refreshOnceStart ==
    /\ pc[Pusher] = "idle"
    /\ seen' = [seen EXCEPT ![Pusher] = Observe]
    /\ deadline' = [deadline EXCEPT ![Pusher] = WithTimeout(now)]
    /\ DoStart(Pusher)

\* FetchSnapshot has returned and fn commits under s.mu
Settle(p, out, ok, fetched, ctxErr) ==
    LET c == myCall[p] IN
    /\ MuFree(p)
    /\ snapshot' = out.snapshot
    /\ meta' = out.meta
    /\ cachedAt' = out.cachedAt
    /\ sfcall' = [sfcall EXCEPT ![c] = [done |-> FALSE, val |-> out.val, err |-> out.err,
                                        ok |-> ok, prev |-> snapshot,
                                        cancelled |-> ctxErr]]
    /\ last' = [id |-> c, ok |-> ok, fetched |-> fetched, prev |-> snapshot,
                at |-> now, duration |-> now - start[p], cancelled |-> ctxErr]
    /\ everOk' = (everOk \/ ok)
    /\ pc' = [pc EXCEPT ![p] = "committed"]
    /\ start' = [start EXCEPT ![p] = 0]
    /\ UNCHANGED <<now, sfm, fetcherCalls, myCall, ret, deadline, seen, nfetch, window,
                   fetchesIn, fetchVars, startVars>>

\* the fetch succeeds with a snapshot collected at some time during the fetch
\* (no request succeeds under a context that is done)
FetchOk(p) ==
    /\ pc[p] = "fetching"
    /\ ~CtxDone(CtxPassed(p))
    /\ \E t \in start[p]..now :
         LET fetched == [id |-> myCall[p], CollectedAt |-> t] IN
         Settle(p, SuccessOutcome(fetched, now - start[p], now), TRUE, fetched, FALSE)

\* the fetch fails: the upstream failed, or the context handed to FetchSnapshot is
\* done and the request in flight returned its error
FetchFail(p) ==
    /\ pc[p] = "fetching"
    /\ Settle(p, FailureOutcome(now - start[p], now, myCall[p]), FALSE, NilSnapshot,
              CtxDone(CtxPassed(p)))

\* singleflight doCall epilogue: `if g.m[key] == c { delete(g.m, key) }`
UnregisterNever(c) == sfm
Unregister(c) == IF sfm = c THEN 0 ELSE sfm

\* singleflight doCall epilogue: mark the call done, unregister it, return to the owner
SfFinish(p) ==
    /\ pc[p] = "committed"
    /\ LET c == myCall[p] IN
       /\ sfcall' = [sfcall EXCEPT ![c].done = TRUE]
       /\ sfm' = Unregister(c)
       /\ ret' = [ret EXCEPT ![p] = RefreshReturn(sfcall[c])]
    /\ pc' = [pc EXCEPT ![p] = "done"]
    /\ UNCHANGED <<now, svcVars, fetcherCalls, myCall, start, deadline, seen, nfetch, window,
                   fetchesIn, last, everOk, fetchVars, startVars>>

\* a coalesced caller wakes up with the shared result
SfWake(p) ==
    /\ pc[p] = "waiting"
    /\ sfcall[myCall[p]].done
    /\ ret' = [ret EXCEPT ![p] = RefreshReturn(sfcall[myCall[p]])]
    /\ pc' = [pc EXCEPT ![p] = "done"]
    /\ UNCHANGED <<now, svcVars, sfVars, myCall, start, deadline, seen, nfetch, window,
                   fetchesIn, last, everOk, fetchVars, startVars>>

\* the OTEL reader runs the callback registered by registerMetrics, on a goroutine
\* of its own: it reads Latest() and reports what buildObservations makes of it.
\* Nothing of the Service changes.
Callback ==
    /\ MuFree(0)
    /\ UNCHANGED vars

\* the caller has consumed the result (a scrape that got an error reads Meta()
\* first); its locals die, and so does a call object that nobody references any more
Return(p) ==
    /\ pc[p] = "done"
    /\ (p \in Scrapers /\ ret[p].err # NoErr) => MuFree(p)
    /\ pc' = [pc EXCEPT ![p] = "idle"]
    /\ ret' = [ret EXCEPT ![p] = NilResult]
    /\ seen' = [seen EXCEPT ![p] = NoSeen]
    /\ deadline' = [deadline EXCEPT ![p] = 0]
    /\ nfetch' = [nfetch EXCEPT ![p] = 0]
    /\ window' = [window EXCEPT ![p] = 0]
    /\ myCall' = [myCall EXCEPT ![p] = 0]
    /\ LET c == myCall[p] IN
       sfcall' = IF c # 0 /\ sfm # c /\ \A q \in Callers \ {p} : myCall[q] # c
                 THEN [sfcall EXCEPT ![c] = NoCall]
                 ELSE sfcall
    /\ UNCHANGED <<now, svcVars, sfm, fetcherCalls, start, fetchesIn, last, everOk, fetchVars, startVars>>

Next ==
    \/ Tick
    \/ \E p \in Scrapers : Collect(p)
    \/ \E p \in Scrapers : GetJoin(p)
    \/ \E p \in Scrapers : GetStart(p)
    \/ refreshOnceJoin
    \/ refreshOnceStart
    \/ \E p \in Callers : FetchOk(p)
    \/ \E p \in Callers : FetchFail(p)
    \/ \E p \in Callers : SfFinish(p)
    \/ \E p \in Callers : SfWake(p)
    \/ \E p \in Callers : Return(p)
    \/ Callback

Spec == Init /\ [][Next]_vars

\* ------------------------------------------------------------ observations
Done(p) == pc[p] = "done"
\* the caller's result came out of the coalescer (not out of the cache)
Served(p) == Done(p) /\ myCall[p] # 0
CallOf(p) == sfcall[myCall[p]]
LatestSnapshot == Latest[1]
LatestMeta == Latest[2]
LatestOk == Latest[3]
StaleMetaOf(prev, duration) ==
    [Up |-> 0, DurationSeconds |-> duration, Timestamp |-> prev.CollectedAt, CacheHit |-> FALSE]
UpMetaOf(fetched, duration) ==
    [Up |-> 1, DurationSeconds |-> duration, Timestamp |-> fetched.CollectedAt, CacheHit |-> FALSE]
DownMetaAt(t, duration) ==
    [Up |-> 0, DurationSeconds |-> duration, Timestamp |-> t, CacheHit |-> FALSE]

\* Collector.Collect after Get returned res: the samples it writes.  rows is the
\* snapshot whose rows are emitted (NilSnapshot: no data row), timestamp 0 means
\* that no timestamp sample is written; lastMeta is what Meta() returns.
EmitRowsOnlyWhenUp(res, lastMeta) ==
    IF res.err # NoErr \/ res.meta.Up = 0
    THEN [up |-> 0, duration |-> lastMeta.DurationSeconds,
          timestamp |-> lastMeta.Timestamp, rows |-> NilSnapshot]
    ELSE [up |-> res.meta.Up, duration |-> res.meta.DurationSeconds,
          timestamp |-> res.meta.Timestamp, rows |-> res.snapshot]
Emit(res, lastMeta) ==
    IF res.err # NoErr
    THEN [up |-> 0, duration |-> lastMeta.DurationSeconds,
          timestamp |-> lastMeta.Timestamp, rows |-> NilSnapshot]
    ELSE [up |-> res.meta.Up, duration |-> res.meta.DurationSeconds,
          timestamp |-> res.meta.Timestamp, rows |-> res.snapshot]

\* ------------------------------------------------------------------ claims

\* C1: Refresh coalesces.  Every caller that reaches the coalescer while a fetch
\* is in flight belongs to that fetch's window; in every window exactly one
\* FetchSnapshot call is made, and all callers of one window receive the same
\* snapshot/meta pair, or the same error.
C1_Coalesce ==
    /\ \A w \in FetchIds : fetchesIn[w] <= 1
    /\ \A p \in Callers : window[p] # 0 => fetchesIn[window[p]] = 1
    /\ \A p, q \in Callers :
         (Done(p) /\ Done(q) /\ window[p] # 0 /\ window[p] = window[q]) => ret[p] = ret[q]

\* C1 witness: the owner and two coalesced callers have all returned from one window
C1_Witness ==
    /\ \A p \in Callers : Done(p) /\ window[p] = 1
    /\ Cardinality({p \in Callers : nfetch[p] = 0}) = 2

\* C2: stale fallback.  A caller served by a fetch that failed while a snapshot was
\* cached gets no error, that very snapshot, and a Meta with Up=0, CacheHit=false
\* and Timestamp = the cached snapshot's collection time; the same Meta is
\* committed and the cached snapshot stays as it was.
C2_StaleFallback ==
    /\ \A p \in Callers :
         (Served(p) /\ ~CallOf(p).ok /\ CallOf(p).prev # NilSnapshot) =>
            /\ ret[p].err = NoErr
            /\ ret[p].snapshot = CallOf(p).prev
            /\ ret[p].meta.Up = 0
            /\ ret[p].meta.CacheHit = FALSE
            /\ ret[p].meta.Timestamp = CallOf(p).prev.CollectedAt
            /\ (myCall[p] = last.id => ret[p].meta = meta)
    /\ (last.id # 0 /\ ~last.ok /\ last.prev # NilSnapshot) =>
            /\ snapshot = last.prev
            /\ meta = StaleMetaOf(last.prev, last.duration)

\* C2 witness: a caller has returned from a failed fetch that met a cached snapshot
\* collected at another time than the failed attempt's
C2_Witness ==
    \E p \in Callers :
        /\ Served(p) /\ myCall[p] = last.id
        /\ ~last.ok /\ last.prev # NilSnapshot
        /\ last.prev.CollectedAt # last.at

\* C3: cache hit.  A Get issued while a snapshot is cached and younger than the TTL
\* returns at once, with no error, the cached snapshot reference, CacheHit=true and
\* DurationSeconds=0, and makes no Fetcher call.
C3_CacheHit ==
    \A p \in Scrapers :
        (pc[p] # "idle" /\ seen[p].fresh) =>
            /\ Done(p)
            /\ myCall[p] = 0 /\ nfetch[p] = 0
            /\ ret[p].err = NoErr
            /\ ret[p].snapshot # NilSnapshot
            /\ ret[p].snapshot.id = seen[p].snapId
            /\ ret[p].meta.CacheHit = TRUE
            /\ ret[p].meta.DurationSeconds = 0

\* C3 witness: a Get has been served from a cache of age 1 whose fetch took time
C3_Witness ==
    \E p \in Scrapers :
        /\ Done(p) /\ seen[p].fresh /\ ret[p].meta.CacheHit
        /\ now = cachedAt + 1
        /\ meta.DurationSeconds > 0

C5_FirstFailure ==
    /\ \A p \in Callers :
         (Served(p) /\ ~CallOf(p).ok /\ CallOf(p).prev = NilSnapshot) =>
            /\ ret[p].err # NoErr
            /\ ret[p].snapshot = NilSnapshot
    /\ ~everOk => (~LatestOk /\ LatestSnapshot = NilSnapshot)

\* C5 witness: a Get and the Refresh it coalesced with returned the first fetch's error
C5_Witness ==
    /\ last.id = 1 /\ ~last.ok
    /\ \E p \in Scrapers : Served(p) /\ myCall[p] = 1 /\ ret[p].err # NoErr
    /\ Served(Pusher) /\ myCall[Pusher] = 1 /\ ret[Pusher].err # NoErr
    /\ ~LatestOk

\* C6: once a fetch has succeeded, no call issued afterwards returns an error:
\* a later failed fetch is reported as a successful call that returns the
\* last-known snapshot with Up=0.
C6_NoErrorAfterSuccess ==
    \A p \in Callers :
        (Done(p) /\ seen[p].afterOk) =>
            /\ ret[p].err = NoErr
            /\ ret[p].snapshot # NilSnapshot
            /\ (myCall[p] # 0 /\ ~CallOf(p).ok) =>
                 /\ ret[p].snapshot = CallOf(p).prev
                 /\ ret[p].snapshot = snapshot \/ myCall[p] # last.id
                 /\ ret[p].meta.Up = 0

\* C6 witness: after a success, a fetch failed and its caller returned without error
C6_Witness ==
    \E p \in Callers :
        /\ Served(p) /\ seen[p].afterOk /\ ~CallOf(p).ok
        /\ ret[p].err = NoErr /\ ret[p].meta.Up = 0

\* C7: success.  A successful fetch commits its snapshot and a Meta with Up=1,
\* Timestamp = the snapshot's own collection time and CacheHit=false; its callers
\* return that pair, and until another fetch settles Latest() and Meta() return
\* exactly that snapshot and Meta.
C7_SuccessCommit ==
    /\ (last.id # 0 /\ last.ok) =>
            /\ snapshot = last.fetched
            /\ snapshot.id = last.id
            /\ cachedAt = last.at
            /\ Meta = UpMetaOf(last.fetched, last.duration)
            /\ Latest = <<last.fetched, UpMetaOf(last.fetched, last.duration), TRUE>>
    /\ \A p \in Callers :
         (Served(p) /\ CallOf(p).ok) =>
            /\ ret[p].err = NoErr
            /\ ret[p].snapshot.id = myCall[p]
            /\ ret[p].meta.Up = 1
            /\ ret[p].meta.CacheHit = FALSE
            /\ ret[p].meta.Timestamp = ret[p].snapshot.CollectedAt
            /\ (myCall[p] = last.id => ret[p].snapshot = snapshot /\ ret[p].meta = Meta)

\* C7 witness: the last fetch succeeded with a snapshot collected before the commit,
\* and its caller has returned
C7_Witness ==
    /\ last.ok /\ last.fetched.CollectedAt < last.at
    /\ \E p \in Callers : Served(p) /\ myCall[p] = last.id

\* C8: failure without a snapshot.  A fetch that fails while nothing is cached
\* commits a Meta with Up=0 and Timestamp = the time of the failed attempt, leaves
\* the cached snapshot absent, and its callers get the fetch's own error.
C8_ErrorCommit ==
    /\ (last.id # 0 /\ ~last.ok /\ last.prev = NilSnapshot) =>
            /\ snapshot = NilSnapshot
            /\ Meta = DownMetaAt(last.at, last.duration)
    /\ \A p \in Callers :
         (Served(p) /\ ~CallOf(p).ok /\ CallOf(p).prev = NilSnapshot) =>
            /\ ret[p].err = myCall[p]
            /\ ret[p].meta = ZeroMeta

\* C8 witness: a fetch that took time failed without a snapshot (its end is not its
\* start), that failure is the committed state, and its caller holds the error
C8_Witness ==
    /\ last.id # 0 /\ ~last.ok /\ last.prev = NilSnapshot
    /\ last.duration > 0 /\ last.at > 1
    /\ \E p \in Callers : Served(p) /\ myCall[p] = last.id /\ ret[p].err = last.id

\* C9 as stated: Latest() reports ok=false while no fetch has settled, and
\* ok=true with the current cached state once a first fetch, successful or
\* failed, has settled.
C9_LatestOkAfterAnySettle ==
    /\ last.id = 0 => ~LatestOk
    /\ last.id # 0 => (LatestOk /\ LatestSnapshot = snapshot /\ LatestMeta = meta)

\* C9 as amended: Latest() reports ok=false as long as no fetch has succeeded
\* (none has settled, or only failed ones have), and ok=true with the current
\* cached snapshot and Meta once a fetch has succeeded.
C9_LatestOkAfterSuccess ==
    /\ LatestOk <=> everOk
    /\ LatestOk => (LatestSnapshot = snapshot /\ snapshot # NilSnapshot /\ LatestMeta = meta)
    /\ ~LatestOk => (LatestSnapshot = NilSnapshot /\ LatestMeta = ZeroMeta)

\* C9 witness: the first fetch has settled as a failure and Latest() still reports
\* ok=false although a Meta has been committed
C9_Witness ==
    /\ last.id = 1 /\ ~last.ok
    /\ Meta # ZeroMeta
    /\ ~LatestOk

\* C10: while the cached snapshot is fresh no upstream fetch is made, whichever
\* consumer asks: a call of Collect (Get) or of refreshOnce (Refresh) issued while
\* the cached snapshot is younger than the TTL makes no FetchSnapshot call.
C10_NoFetchWhileFresh ==
    \A p \in Callers : seen[p].fresh => nfetch[p] = 0

\* C11: one refresh per stale cache.  At every moment, any two calls in progress
\* (Get from a scrape, Refresh from the pusher) that were both issued against the
\* same cached snapshot when it was already stale, and that have both reached the
\* coalescer, are attached to one and the same upstream fetch.
C11_OneFetchPerStaleCache ==
    \A p, q \in Callers :
        ( /\ pc[p] \notin {"idle", "done"} /\ pc[q] \notin {"idle", "done"}
          /\ seen[p].snapId # 0 /\ ~seen[p].fresh
          /\ seen[q].snapId = seen[p].snapId /\ ~seen[q].fresh
          /\ myCall[p] # 0 /\ myCall[q] # 0 )
        => myCall[p] = myCall[q]

\* ---------------------------------------------------------- Fetcher actions
\* the position of FetchSnapshot's goroutine while it runs a fan-out phase
LoopOf(ph) == CASE ph = 2 -> "servers" [] ph = 3 -> "leases" [] ph = 4 -> "pools"

Tasks(ph) == DOMAIN work[ph]
Pending(ph) == {t \in Tasks(ph) : tstate[ph][t] = "pending"}
\* closures that hold a slot of the errgroup's semaphore
Holding(ph) == {t \in Tasks(ph) : tstate[ph][t] \in {"running", "processing"}}
\* errgroup.Go blocks until a slot is free (SetLimit(c.parallelFetches))
SlotFreeAlways(ph) == TRUE
SlotFree(ph) == Cardinality(Holding(ph)) < parallelFetches
\* errgroup.Wait returns once every closure handed to Go has returned
WaitOverAtOnce(ph) == TRUE
WaitOverRequestsOnly(ph) == \A t \in Tasks(ph) : tstate[ph][t] \notin {"pending", "running"}
WaitOver(ph) == \A t \in Tasks(ph) : tstate[ph][t] \in {"ok", "failed"}

\* `if err := g.Wait(); err != nil`
WaitFailedNever(ph) == FALSE
WaitFailed(ph) == groupErr[ph] # NilError

\* errOnce: the group keeps the error of the first closure that returned one
LastError(kept, err) == err
FirstError(kept, err) == IF kept = NilError THEN err ELSE kept

AllPending(tasks) == [t \in DOMAIN tasks |-> "pending"]

\* `return nil, err`
ReturnError(err) ==
    /\ result' = [returned |-> TRUE, snapshot |-> NilFetched, err |-> err]
    /\ fpc' = "returned"

\* a set as a sequence, in some order
SetToSeq(S) == CHOOSE f \in [1..Cardinality(S) -> S] : {f[i] : i \in DOMAIN f} = S

\* phase 3's closures: one per group with servers and distinct service instance
LeaseWork(byVG) ==
    SetToSeq(UNION {{[vg |-> g, si |-> TrimSpace(s)] : s \in ServiceInstanceIDs(byVG[g])} :
                    g \in {h \in DOMAIN byVG : Len(byVG[h]) # 0}})

\* servers := serversByVG[vg.ID] (a missing key reads as the nil slice)
ServersOf(byVG, id) == IF id \in DOMAIN byVG THEN byVG[id] ELSE << >>

\* phase 4's closures: one per group and server, in listing order
RECURSIVE PoolWork(_, _)
PoolWork(vgs, byVG) ==
    IF vgs = << >> THEN << >>
    ELSE [i \in DOMAIN ServersOf(byVG, Head(vgs).ID) |->
            [vg |-> Head(vgs), server |-> ServersOf(byVG, Head(vgs).ID)[i]]]
         \o PoolWork(Tail(vgs), byVG)

\* what the upstream can answer to a request: anything, or what is fixed for it
GroupAnswers == IF upstream = << >> THEN VirtualGroupLists ELSE {upstream.groups}
ServerAnswers(vg) == IF upstream = << >> THEN ServerLists(vg) ELSE {upstream.servers[vg]}
LeaseAnswers(si) == IF upstream = << >> THEN LeaseResponses ELSE {upstream.leases[si]}
PoolAnswers(serverID) == IF upstream = << >> THEN PoolLists ELSE {upstream.pools[serverID]}

\* FetchSnapshot is called: listVirtualGroups is requested
FetchSnapshot ==
    /\ fpc = "idle"
    /\ fpc' = "groups"
    /\ UNCHANGED <<serviceVars, startVars, upstream, parallelFetches, virtualGroups, work, tstate, todo, groupErr,
                   cancelled, serversByVG, leaseVars, newSnapshot, result, fetchHist>>

\* phase 1 succeeds: the snapshot is created and the server loop begins
listVirtualGroupsOk ==
    /\ fpc = "groups"
    /\ \E vgs \in GroupAnswers :
        /\ virtualGroups' = vgs
        /\ work' = [work EXCEPT ![2] = [i \in DOMAIN vgs |-> [vg |-> vgs[i]]]]
        /\ tstate' = [tstate EXCEPT ![2] = AllPending(vgs)]
    /\ newSnapshot' = NewSnapshot
    /\ fpc' = "servers"
    /\ UNCHANGED <<serviceVars, startVars, upstream, parallelFetches, todo, groupErr, cancelled, serversByVG,
                   leaseVars, result, fetchHist>>

\* phase 1 fails
listVirtualGroupsFail ==
    /\ fpc = "groups"
    /\ ReturnError(ErrorOf(1, 0))
    /\ failOrder' = Append(failOrder, ErrorOf(1, 0))
    /\ UNCHANGED <<serviceVars, startVars, upstream, parallelFetches, virtualGroups, work, tstate, todo, groupErr,
                   cancelled, serversByVG, leaseVars, newSnapshot, offered>>

\* errgroup.Go: the loop hands over its next closure, whose request is issued
\* (phases 2 and 4 walk slices in order, phase 3 walks maps in any order)
Go(ph, t) ==
    /\ fpc = LoopOf(ph)
    /\ t \in Pending(ph)
    /\ ph # 3 => \A u \in Pending(ph) : t <= u
    /\ SlotFree(ph)
    /\ tstate' = [tstate EXCEPT ![ph][t] = "running"]
    /\ UNCHANGED <<serviceVars, startVars, upstream, parallelFetches, fpc, virtualGroups, work, todo, groupErr,
                   cancelled, serversByVG, leaseVars, newSnapshot, result, fetchHist>>

\* doJSON makes one HTTP round trip and returns its error (transport error or a
\* status outside 2xx) to the list function, which returns it to the closure:
\* the closure ends as failed, and nothing puts its request back
RequestErrorRetried == "pending"
RequestError == "failed"

\* a closure's request fails (upstream error, or its context was cancelled):
\* the closure returns the error; errgroup keeps the first one and cancels
RequestFail(ph, t) ==
    /\ t \in Tasks(ph)
    /\ tstate[ph][t] = "running"
    /\ tstate' = [tstate EXCEPT ![ph][t] = RequestError]
    /\ groupErr' = [groupErr EXCEPT ![ph] = FirstError(@, ErrorOf(ph, t))]
    /\ cancelled' = [cancelled EXCEPT ![ph] = TRUE]
    /\ failOrder' = Append(failOrder, ErrorOf(ph, t))
    /\ UNCHANGED <<serviceVars, startVars, upstream, parallelFetches, fpc, virtualGroups, work, todo, serversByVG,
                   leaseVars, newSnapshot, result, offered>>

\* phase 2 closure: listLicenseServers answers, the servers are stored
listLicenseServersOk(t) ==
    /\ t \in Tasks(2)
    /\ tstate[2][t] = "running"
    /\ ~cancelled[2]
    /\ \E servers \in ServerAnswers(work[2][t].vg.ID) :
        serversByVG' = [g \in DOMAIN serversByVG \cup {work[2][t].vg.ID} |->
                            IF g = work[2][t].vg.ID THEN Backfill(servers, work[2][t].vg)
                            ELSE serversByVG[g]]
    /\ tstate' = [tstate EXCEPT ![2][t] = "ok"]
    /\ UNCHANGED <<serviceVars, startVars, upstream, parallelFetches, fpc, virtualGroups, work, todo, groupErr,
                   cancelled, leaseVars, newSnapshot, result, fetchHist>>

\* serverGroup.Wait returns
serverGroupWait ==
    /\ fpc = "servers"
    /\ WaitOver(2)
    /\ IF WaitFailed(2)
       THEN /\ ReturnError(groupErr[2])
            /\ UNCHANGED <<work, tstate, todo>>
       ELSE /\ work' = [work EXCEPT ![3] = LeaseWork(serversByVG)]
            /\ tstate' = [tstate EXCEPT ![3] = AllPending(LeaseWork(serversByVG))]
            /\ todo' = [t \in DOMAIN LeaseWork(serversByVG) |-> << >>]
            /\ fpc' = "leases"
            /\ UNCHANGED result
    /\ UNCHANGED <<serviceVars, startVars, upstream, parallelFetches, virtualGroups, groupErr, cancelled,
                   serversByVG, leaseVars, newSnapshot, fetchHist>>

\* phase 3 closure: listActiveLeases answers
listActiveLeasesOk(t) ==
    /\ t \in Tasks(3)
    /\ tstate[3][t] = "running"
    /\ ~cancelled[3]
    /\ \E clients \in LeaseAnswers(work[3][t].si) :
        /\ todo' = [todo EXCEPT ![t] = clients]
        /\ tstate' = [tstate EXCEPT ![3][t] = IF clients = << >> THEN "ok" ELSE "processing"]
    /\ UNCHANGED <<serviceVars, startVars, upstream, parallelFetches, fpc, virtualGroups, work, groupErr, cancelled,
                   serversByVG, leaseVars, newSnapshot, result, fetchHist>>

\* phase 3 closure, one lease of a client record: the accumulators after it.  The
\* lease is resolved to a server (skipped when it has none) and, under the lock,
\* dropped when its id was seen, else added to the three totals.
Accumulate(acc, virtualGroupID, servers, lease) ==
    LET serverID == ResolveServer(lease, servers)
        leaseCount == NormalizeLeaseCount(lease.LeaseCount)
        key == FeatureKey(virtualGroupID, servers, serverID, lease)
        leaseID == TrimSpace(lease.LeaseID)
    IN  IF serverID = "" \/ IsDuplicate(leaseID, acc.seenLeaseIDs) THEN acc
        ELSE [seenLeaseIDs |-> IF leaseID # "" THEN acc.seenLeaseIDs \cup {leaseID}
                               ELSE acc.seenLeaseIDs,
              serverTotals |-> AddTo(acc.serverTotals, serverID, leaseCount),
              featureTotals |-> AddTo(acc.featureTotals, key, leaseCount),
              total |-> acc.total + leaseCount]

\* phase 3 closure: one lease of the response is resolved and, under the lock,
\* deduplicated and added to the totals; after the last one the closure returns
CountLease(t) ==
    /\ t \in Tasks(3)
    /\ tstate[3][t] = "processing"
    /\ LET lease == Head(todo[t])
           servers == serversByVG[work[3][t].vg]
           serverID == ResolveServer(lease, servers)
           leaseCount == NormalizeLeaseCount(lease.LeaseCount)
           key == FeatureKey(work[3][t].vg, servers, serverID, lease)
           leaseID == TrimSpace(lease.LeaseID)
           acc == Accumulate([seenLeaseIDs |-> seenLeaseIDs, serverTotals |-> serverTotals,
                              featureTotals |-> featureTotals, total |-> total],
                             work[3][t].vg, servers, lease)
       IN  /\ seenLeaseIDs' = acc.seenLeaseIDs
           /\ serverTotals' = acc.serverTotals
           /\ featureTotals' = acc.featureTotals
           /\ total' = acc.total
           /\ offered' = IF serverID = "" THEN offered
                         ELSE Append(offered,
                                [lease |-> lease, serverID |-> serverID, key |-> key,
                                 counted |-> ~IsDuplicate(leaseID, seenLeaseIDs),
                                 added |-> IF IsDuplicate(leaseID, seenLeaseIDs) THEN 0
                                           ELSE leaseCount])
    /\ todo' = [todo EXCEPT ![t] = Tail(@)]
    /\ tstate' = [tstate EXCEPT ![3][t] = IF Tail(todo[t]) = << >> THEN "ok" ELSE "processing"]
    /\ UNCHANGED <<serviceVars, startVars, upstream, parallelFetches, fpc, virtualGroups, work, groupErr, cancelled,
                   serversByVG, newSnapshot, result, failOrder>>

\* activeGroup.Wait returns, fetchActiveLeaseUsage builds its rows and returns
activeGroupWait ==
    /\ fpc = "leases"
    /\ WaitOver(3)
    /\ IF WaitFailed(3)
       THEN /\ ReturnError(groupErr[3])
            /\ UNCHANGED <<work, tstate, newSnapshot>>
       ELSE /\ newSnapshot' =
                  [newSnapshot EXCEPT
                      !.ActiveLeaseTotal = total,
                      !.ServerActiveLeases = ServerActiveLeaseRows(serversByVG, serverTotals),
                      !.ServerFeatureActiveLeases = FeatureActiveLeaseRows(featureTotals)]
            /\ work' = [work EXCEPT ![4] = PoolWork(virtualGroups, serversByVG)]
            /\ tstate' = [tstate EXCEPT ![4] = AllPending(PoolWork(virtualGroups, serversByVG))]
            /\ fpc' = "pools"
            /\ UNCHANGED result
    /\ UNCHANGED <<serviceVars, startVars, upstream, parallelFetches, virtualGroups, todo, groupErr, cancelled,
                   serversByVG, leaseVars, fetchHist>>

\* appends that overwrite: the rows of the closures before are lost
AppendResultsLost(snap, server, pools, activeByServer) ==
    [snap EXCEPT
        !.PoolUsage = PoolUsageRows(server, pools),
        !.ServerUsage = Append(@, ServerUsageRow(server, pools, activeByServer)),
        !.ServerFeatureCapacity = @ \o ServerFeatureCapacityRows(server)]

\* the section under snapshotMu: one closure's rows are appended to the three
\* shared lists in one piece
AppendResults(snap, server, pools, activeByServer) ==
    [snap EXCEPT
        !.PoolUsage = @ \o PoolUsageRows(server, pools),
        !.ServerUsage = Append(@, ServerUsageRow(server, pools, activeByServer)),
        !.ServerFeatureCapacity = @ \o ServerFeatureCapacityRows(server)]

\* phase 4 closure: listLicensePools answers, the rows are built and appended
listLicensePoolsOk(t) ==
    /\ t \in Tasks(4)
    /\ tstate[4][t] = "running"
    /\ ~cancelled[4]
    /\ \E pools \in PoolAnswers(work[4][t].server.ID) :
        newSnapshot' = AppendResults(newSnapshot, work[4][t].server, pools, serverTotals)
    /\ tstate' = [tstate EXCEPT ![4][t] = "ok"]
    /\ UNCHANGED <<serviceVars, startVars, upstream, parallelFetches, fpc, virtualGroups, work, todo, groupErr,
                   cancelled, serversByVG, leaseVars, result, fetchHist>>

\* poolGroup.Wait returns, and FetchSnapshot with it
poolGroupWait ==
    /\ fpc = "pools"
    /\ WaitOver(4)
    /\ IF WaitFailed(4)
       THEN ReturnError(groupErr[4])
       ELSE /\ result' = [returned |-> TRUE, snapshot |-> newSnapshot, err |-> NilError]
            /\ fpc' = "returned"
    /\ UNCHANGED <<serviceVars, startVars, upstream, parallelFetches, virtualGroups, work, tstate, todo, groupErr,
                   cancelled, serversByVG, leaseVars, newSnapshot, fetchHist>>

FetchNext ==
    \/ FetchSnapshot
    \/ listVirtualGroupsOk
    \/ listVirtualGroupsFail
    \/ \E ph \in Phases : \E t \in Tasks(ph) : Go(ph, t)
    \/ \E ph \in Phases : \E t \in Tasks(ph) : RequestFail(ph, t)
    \/ \E t \in Tasks(2) : listLicenseServersOk(t)
    \/ serverGroupWait
    \/ \E t \in Tasks(3) : listActiveLeasesOk(t)
    \/ \E t \in Tasks(3) : CountLease(t)
    \/ activeGroupWait
    \/ \E t \in Tasks(4) : listLicensePoolsOk(t)
    \/ poolGroupWait

\* one FetchSnapshot call of a client built with any of the configurations
FetchInit ==
    NewService /\ NotStarted /\ AnyUpstream /\ \E cfg \in ConfiguredParallel : ClientIdle(cfg)

FetchSpec == FetchInit /\ [][FetchNext]_vars

\* ------------------------------------------------------ claims on the Fetcher
RECURSIVE SeqSum(_)
SeqSum(xs) == IF xs = << >> THEN 0 ELSE Head(xs) + SeqSum(Tail(xs))

\* the closures of every phase, as <<phase, index>>
AllTasks == {<<ph, t>> \in Phases \X (1..3) : t \in Tasks(ph)}
\* the number of servers the phase-2 listings returned
ListedServers == SeqSum([i \in DOMAIN virtualGroups |->
                            IF virtualGroups[i].ID \in DOMAIN serversByVG
                            THEN Len(serversByVG[virtualGroups[i].ID]) ELSE 0])

\* C12: fail fast.  When FetchSnapshot has returned: if any sub-fetch failed it
\* returned an error and a nil snapshot; it returns an error exactly when it returns
\* no snapshot; and a snapshot is returned only when no sub-fetch failed, every
\* closure of every phase returned nil, every listed group has its servers and every
\* listed server has its usage row.
C12_FailFast ==
    result.returned =>
        /\ failOrder # << >> => (result.err # NilError /\ ~result.snapshot.nonNil)
        /\ result.err # NilError <=> ~result.snapshot.nonNil
        /\ result.snapshot.nonNil =>
            /\ failOrder = << >>
            /\ \A x \in AllTasks : tstate[x[1]][x[2]] = "ok"
            /\ \A i \in DOMAIN virtualGroups : virtualGroups[i].ID \in DOMAIN serversByVG
            /\ Len(work[4]) = ListedServers
            /\ Len(result.snapshot.ServerUsage) = ListedServers
            /\ result.snapshot.ActiveLeaseTotal = total

\* C12 witness: a pool listing failed after another server's rows had been added:
\* the call returned that error and no snapshot
C12_Witness ==
    /\ result.returned
    /\ result.err.phase = 4
    /\ Len(newSnapshot.ServerUsage) > 0
    /\ ~result.snapshot.nonNil

\* the lease id of an entry of the log, "" when the payload's id is blank
LeaseIdOf(e) == IF e.lease.LeaseID \in {"", " "} THEN "" ELSE e.lease.LeaseID
\* what a counted lease is worth
Contribution(e) == IF e.lease.LeaseCount <= 0 THEN 1 ELSE e.lease.LeaseCount
\* the entry is the first of the log with its (non-blank) lease id, or has no id
FirstOrBlank(i) ==
    \/ LeaseIdOf(offered[i]) = ""
    \/ \A j \in 1..(i - 1) : LeaseIdOf(offered[j]) # LeaseIdOf(offered[i])

\* C13: lease deduplication.  Of the leases handled within one FetchSnapshot, in
\* whatever order the concurrent closures handle them, a lease with a non-blank id
\* is counted exactly when no lease with that id was handled before (so at most
\* once globally), a lease without id is always counted, and the grand total is the
\* sum over those counted leases only.
C13_LeaseDedup ==
    /\ \A i \in DOMAIN offered : offered[i].counted <=> FirstOrBlank(i)
    /\ \A i, j \in DOMAIN offered :
         (i # j /\ offered[i].counted /\ offered[j].counted /\ LeaseIdOf(offered[i]) # "")
            => LeaseIdOf(offered[i]) # LeaseIdOf(offered[j])
    /\ seenLeaseIDs = {LeaseIdOf(offered[i]) : i \in DOMAIN offered} \ {""}
    /\ total = SeqSum([i \in DOMAIN offered |->
                          IF FirstOrBlank(i) THEN Contribution(offered[i]) ELSE 0])

\* C13 witness: two service-instance closures are at work, each has handled the
\* first lease of a full response, both were lease "L1" with count 3, and the grand
\* total is 3
C13_Witness ==
    /\ \A t \in {1, 2} : t \in Tasks(3) /\ tstate[3][t] = "processing"
                         /\ Len(todo[t]) = MaxLeases - 1
    /\ Len(offered) = 2
    /\ \A i \in DOMAIN offered : LeaseIdOf(offered[i]) = "L1" /\ offered[i].lease.LeaseCount = 3
    /\ total = 3

\* the sum of what the log's entries selected by `pick` added
AddedWhere(pick(_)) ==
    SeqSum([i \in DOMAIN offered |-> IF pick(offered[i]) THEN offered[i].added ELSE 0])

\* C14: lease count normalisation.  Every counted lease adds 1 when its leaseCount
\* is <= 0 and its leaseCount otherwise (a dropped duplicate adds nothing), and it
\* adds that amount to its server's total, to its (server, feature) total and to
\* the grand total: each of the three aggregates is the sum of those amounts.
C14_CountNormalised ==
    /\ \A i \in DOMAIN offered :
         offered[i].added = IF ~offered[i].counted THEN 0
                            ELSE IF offered[i].lease.LeaseCount <= 0 THEN 1
                            ELSE offered[i].lease.LeaseCount
    /\ LET Every(e) == TRUE IN total = AddedWhere(Every)
    /\ DOMAIN serverTotals = {offered[i].serverID : i \in {j \in DOMAIN offered : offered[j].counted}}
    /\ \A s \in DOMAIN serverTotals :
         LET OfServer(e) == e.serverID = s IN serverTotals[s] = AddedWhere(OfServer)
    /\ DOMAIN featureTotals = {offered[i].key : i \in {j \in DOMAIN offered : offered[j].counted}}
    /\ \A k \in DOMAIN featureTotals :
         LET OfKey(e) == e.key = k IN featureTotals[k] = AddedWhere(OfKey)

\* C14 witness: a lease with count 0 and a lease with count -2 were counted, for
\* different servers: each server total is 1 and the grand total is 2
C14_Witness ==
    /\ Len(offered) = 2
    /\ \E i, j \in DOMAIN offered :
        /\ offered[i].counted /\ offered[i].lease.LeaseCount = 0
        /\ offered[j].counted /\ offered[j].lease.LeaseCount < 0
        /\ offered[i].serverID # offered[j].serverID
        /\ serverTotals[offered[i].serverID] = 1
        /\ serverTotals[offered[j].serverID] = 1
        /\ featureTotals[offered[i].key] = 1
    /\ total = 2

\* max(0, allocated - inUse)
ClampedDifference(allocated, inUse) == IF allocated - inUse > 0 THEN allocated - inUse ELSE 0

\* C15: in every snapshot FetchSnapshot returns, every pool-usage row and every
\* server-usage row has Available = max(0, Allocated - InUse), hence Available >= 0.
C15_AvailableClamped ==
    (result.returned /\ result.snapshot.nonNil) =>
        /\ \A i \in DOMAIN result.snapshot.PoolUsage :
             LET row == result.snapshot.PoolUsage[i]
             IN  row.Available = ClampedDifference(row.Allocated, row.InUse) /\ row.Available >= 0
        /\ \A i \in DOMAIN result.snapshot.ServerUsage :
             LET row == result.snapshot.ServerUsage[i]
             IN  row.Available = ClampedDifference(row.Allocated, row.InUse) /\ row.Available >= 0

\* C15 witness: a returned snapshot holds a pool row with allocated=50, inUse=80,
\* available=0 and a server row whose in-use figure exceeds its allocation
C15_Witness ==
    /\ result.returned /\ result.snapshot.nonNil
    /\ \E i \in DOMAIN result.snapshot.PoolUsage :
         LET row == result.snapshot.PoolUsage[i]
         IN  row.Allocated = 50 /\ row.InUse = 80 /\ row.Available = 0
    /\ \E i \in DOMAIN result.snapshot.ServerUsage :
         LET row == result.snapshot.ServerUsage[i]
         IN  row.InUse > row.Allocated /\ row.Available = 0

\* the sum of field f over the returned pool-usage rows of one server
PoolSum(serverID, f) ==
    SeqSum([i \in DOMAIN result.snapshot.PoolUsage |->
               IF result.snapshot.PoolUsage[i].ServerID = serverID
               THEN result.snapshot.PoolUsage[i][f] ELSE 0])

\* C16: active-lease override.  In a returned snapshot every server-usage row has
\* Allocated = the sum of the server's pool allotments; when phase 3 produced an
\* active-lease total for the server, InUse is that total and Available is
\* max(0, Allocated - total); otherwise InUse is the sum of the pools' in-use
\* figures and Available is max(0, Allocated - InUse).  Every published per-server
\* active-lease row agrees with the usage row of its server.
C16_ActiveLeaseOverride ==
    (result.returned /\ result.snapshot.nonNil) =>
        /\ \A i \in DOMAIN result.snapshot.ServerUsage :
             LET row == result.snapshot.ServerUsage[i]
             IN  /\ row.Allocated = PoolSum(row.ServerID, "Allocated")
                 /\ IF row.ServerID \in DOMAIN serverTotals
                    THEN /\ row.InUse = serverTotals[row.ServerID]
                         /\ row.Available =
                              ClampedDifference(row.Allocated, serverTotals[row.ServerID])
                    ELSE /\ row.InUse = PoolSum(row.ServerID, "InUse")
                         /\ row.Available = ClampedDifference(row.Allocated, row.InUse)
        /\ \A a \in result.snapshot.ServerActiveLeases :
             \E i \in DOMAIN result.snapshot.ServerUsage :
                /\ result.snapshot.ServerUsage[i].ServerID = a.ServerID
                /\ result.snapshot.ServerUsage[i].InUse = a.ActiveLeases

\* C16 witness: a returned snapshot with a server whose active-lease total differs
\* from its pools' in-use sum, and a server without active-lease total whose pools
\* are in use
C16_Witness ==
    /\ result.returned /\ result.snapshot.nonNil
    /\ \E i, j \in DOMAIN result.snapshot.ServerUsage :
         LET over == result.snapshot.ServerUsage[i]
             plain == result.snapshot.ServerUsage[j]
         IN  /\ over.ServerID \in DOMAIN serverTotals
             /\ over.InUse # PoolSum(over.ServerID, "InUse")
             /\ PoolSum(over.ServerID, "InUse") > 0
             /\ plain.ServerID \notin DOMAIN serverTotals
             /\ plain.InUse > 0

\* the scenario of C17: one group (id 1) with the single server "srv-1", which
\* declares one feature capacity row with total 100; the active-lease fetch
\* returned one lease, id "L1" with count 3, attributed to that server; the
\* snapshot was returned
Scenario17 ==
    /\ result.returned /\ result.snapshot.nonNil
    /\ Len(virtualGroups) = 1 /\ virtualGroups[1].ID = 1
    /\ Len(serversByVG[1]) = 1 /\ serversByVG[1][1].ID = "srv-1"
    /\ Len(result.snapshot.ServerFeatureCapacity) = 1
    /\ result.snapshot.ServerFeatureCapacity[1].ServerID = "srv-1"
    /\ result.snapshot.ServerFeatureCapacity[1].TotalQuantity = 100
    /\ Len(offered) = 1
    /\ LeaseIdOf(offered[1]) = "L1" /\ offered[1].lease.LeaseCount = 3
    /\ offered[1].serverID = "srv-1"

\* C17 as stated: in the scenario the server-usage row of "srv-1" has in_use=3 and
\* available=97, whatever the pools say.
C17_ScenarioAvailable97 ==
    Scenario17 =>
        /\ Len(result.snapshot.ServerUsage) = 1
        /\ result.snapshot.ServerUsage[1].ServerID = "srv-1"
        /\ result.snapshot.ServerUsage[1].InUse = 3
        /\ result.snapshot.ServerUsage[1].Available = 97

\* C17 amended: in the scenario the server-usage row of "srv-1" has in_use=3,
\* overriding the pools' in-use figure, and available = max(0, A - 3) where A is
\* the sum of the server's pool allotments (not its declared feature capacity):
\* 97 when the pools allot 100.
C17_ScenarioOverride ==
    Scenario17 =>
        /\ Len(result.snapshot.ServerUsage) = 1
        /\ LET row == result.snapshot.ServerUsage[1]
           IN  /\ row.ServerID = "srv-1"
               /\ row.InUse = 3
               /\ row.Allocated = PoolSum("srv-1", "Allocated")
               /\ row.Available = ClampedDifference(PoolSum("srv-1", "Allocated"), 3)
               /\ PoolSum("srv-1", "Allocated") = 100 => row.Available = 97

\* C17 witness: the scenario with pools that allot 100 and report 10 in use
C17_Witness ==
    /\ Scenario17
    /\ PoolSum("srv-1", "Allocated") = 100
    /\ PoolSum("srv-1", "InUse") = 10
    /\ result.snapshot.ServerUsage[1].InUse = 3
    /\ result.snapshot.ServerUsage[1].Available = 97

\* every closure of the phase has been handed to Go and has returned
PhaseCompleted(ph) == \A t \in Tasks(ph) : tstate[ph][t] \in {"ok", "failed"}
\* some closure of the phase has been handed to Go
PhaseStarted(ph) == \E t \in Tasks(ph) : tstate[ph][t] # "pending"

\* C18: strict cross-phase ordering.  Once a phase-4 closure (pool listing and usage
\* rollup) has started, every phase-3 closure has returned and the active-lease
\* totals are those published in the snapshot; once a phase-3 closure has started,
\* every phase-2 server listing has returned.
C18_PhaseOrder ==
    /\ PhaseStarted(4) =>
        /\ PhaseCompleted(3) /\ PhaseCompleted(2)
        /\ newSnapshot.ActiveLeaseTotal = total
        /\ newSnapshot.ServerActiveLeases = ServerActiveLeaseRows(serversByVG, serverTotals)
    /\ PhaseStarted(3) => PhaseCompleted(2)
    /\ fpc \in {"leases", "pools"} => PhaseCompleted(2)
    /\ fpc = "pools" => PhaseCompleted(3)

\* C18 witness: a pool listing is in flight after two server listings and two
\* active-lease closures, which counted leases, have all returned
C18_Witness ==
    /\ \E t \in Tasks(4) : tstate[4][t] = "running"
    /\ Len(work[2]) = 2 /\ Len(work[3]) = 2
    /\ PhaseCompleted(3) /\ PhaseCompleted(2)
    /\ total > 0

\* upstream requests in flight: listVirtualGroups, or the closures' requests
InFlightRequests ==
    (IF fpc = "groups" THEN 1 ELSE 0)
    + SeqSum([i \in 1..3 |-> Cardinality({t \in Tasks(i + 1) : tstate[i + 1][t] = "running"})])

\* C19: bounded fan-out.  At every moment of a FetchSnapshot call the number of
\* upstream requests in flight, and the number of closures running, is at most the
\* client's parallelism P, in every phase; P is the configured value when that is
\* positive and 8 otherwise.
C19_BoundedFanOut ==
    /\ InFlightRequests <= parallelFetches
    /\ \A ph \in Phases : Cardinality(Holding(ph)) <= parallelFetches
    /\ \E cfg \in ConfiguredParallel :
         parallelFetches = IF cfg <= 0 THEN 8 ELSE cfg
    /\ \A cfg \in ConfiguredParallel :
         NewClient(cfg) = IF cfg <= 0 THEN 8 ELSE cfg

\* C19 witness: with P = 2, two pool listings are in flight and a third closure
\* is held back by Go
C19_Witness ==
    /\ parallelFetches = 2
    /\ InFlightRequests = 2
    /\ Pending(4) # {}
    /\ fpc = "pools"

\* the failures of one phase's closures, in the order they happened
FailuresOf(ph) == LET InPhase(e) == e.phase = ph IN SelectSeq(failOrder, InPhase)

\* C20: shared cancellation.  In every fan-out phase the group's context is
\* cancelled exactly when one of its closures has failed, the error the group keeps
\* is that of the closure that failed first, and the error FetchSnapshot returns is
\* the first failure of the call, not that of a sibling that failed afterwards.
C20_FirstErrorWins ==
    /\ \A ph \in Phases :
         IF FailuresOf(ph) = << >>
         THEN ~cancelled[ph] /\ groupErr[ph] = NilError
         ELSE cancelled[ph] /\ groupErr[ph] = Head(FailuresOf(ph))
    /\ (result.returned /\ result.err # NilError) =>
         /\ failOrder # << >>
         /\ result.err = Head(failOrder)
    /\ \A ph \in Phases : \A t \in Tasks(ph) :
         tstate[ph][t] = "failed" <=> \E i \in DOMAIN failOrder : failOrder[i] = ErrorOf(ph, t)

\* C20 witness: two sibling closures of one phase failed, one after the other, and
\* FetchSnapshot returned the error of the first
C20_Witness ==
    /\ result.returned
    /\ Len(failOrder) = 2
    /\ failOrder[1].phase = failOrder[2].phase
    /\ failOrder[1].task > failOrder[2].task
    /\ result.err = failOrder[1]

\* ------------------------------------------------------ claims C21 .. C30

C22_ScrapeUnderFailure ==
    \A p \in Scrapers :
        (Served(p) /\ ~CallOf(p).ok) =>
            LET out == Emit(ret[p], Meta) IN
            /\ out.up = 0
            /\ CallOf(p).prev = NilSnapshot => out.rows = NilSnapshot
            /\ CallOf(p).prev # NilSnapshot =>
                 /\ out.rows = CallOf(p).prev
                 /\ out.rows # NilSnapshot
                 /\ (myCall[p] = last.id => out.rows = snapshot)

\* C22 witness: the third fetch failed while the snapshot of the second was
\* cached, and the scrape it served emits up=0 with the rows of that snapshot
C22_Witness ==
    \E p \in Scrapers :
        /\ Served(p) /\ ~CallOf(p).ok /\ myCall[p] = 3
        /\ CallOf(p).prev.id = 2
        /\ Emit(ret[p], Meta).up = 0
        /\ Emit(ret[p], Meta).rows.id = 2

\* the ids of the servers listed for a group
ServerIDsOf(g) == {ServersOf(serversByVG, g)[j].ID : j \in DOMAIN ServersOf(serversByVG, g)}

\* C23: lease-to-server resolution.  Every lease that reaches the totals is
\* attributed to a server of its group: the server its client record names, or,
\* when that id is blank, the only server of a group that has exactly one; every
\* other lease is skipped, so the per-server totals, the per-(server, feature)
\* totals and the grand total are made of leases resolved to servers of their group.
C23_LeaseResolution ==
    /\ \A i \in DOMAIN offered :
         LET e == offered[i]
             named == TrimSpace(e.lease.LicenseServerID)
             ids == ServerIDsOf(e.key.virtualGroupID)
         IN  /\ e.serverID \in ids
             /\ named # "" => e.serverID = named
             /\ named = "" => ids = {e.serverID}
    /\ \A id \in DOMAIN serverTotals : \E g \in DOMAIN serversByVG : id \in ServerIDsOf(g)
    /\ \A k \in DOMAIN featureTotals : k.serverID \in ServerIDsOf(k.virtualGroupID)
    /\ total = SeqSum([i \in DOMAIN offered |-> offered[i].added])

\* the payload of the server with the given id, as the upstream sent it
PayloadOf(id) == CHOOSE srv \in {Srv1, Srv2, Srv3} : srv.ID = id
\* the servers each listing returned, with the listed group
Listings ==
    UNION {{[vg |-> virtualGroups[i], server |-> ServersOf(serversByVG, virtualGroups[i].ID)[j]] :
                j \in DOMAIN ServersOf(serversByVG, virtualGroups[i].ID)} :
           i \in DOMAIN virtualGroups}
\* the group and server labels of a row
Labels(row) ==
    [VirtualGroupID |-> row.VirtualGroupID, VirtualGroupName |-> row.VirtualGroupName,
     ServerID |-> row.ServerID, ServerName |-> row.ServerName]
SeqLabels(rows) == {Labels(rows[i]) : i \in DOMAIN rows}
SetLabels(rows) == {Labels(row) : row \in rows}
\* rows built by phase 4 (capacity, usage, pool) and by phase 3 (active leases)
PoolPhaseLabels(snap) ==
    SeqLabels(snap.ServerFeatureCapacity) \cup SeqLabels(snap.ServerUsage)
        \cup SeqLabels(snap.PoolUsage)
LeasePhaseLabels(snap) ==
    SetLabels(snap.ServerActiveLeases) \cup SetLabels(snap.ServerFeatureActiveLeases)
ReturnedSnapshot == result.returned /\ result.err = NilError

Published ==
    {ret[p].snapshot : p \in Callers} \cup {sfcall[c].val.snapshot : c \in FetchIds}
        \cup {snapshot}

\* C25: the cached snapshot is copy-on-write and replace-only.  In every step: a
\* snapshot object that was published or cached before the step has the same
\* content wherever it is referenced after the step; the cached snapshot changes
\* only in a step in which a fetch settles successfully, and then to the object
\* that fetch built, which no one referenced before; and a cache that holds a
\* snapshot still holds one after the step.
C25_ReplaceOnly ==
    [][ /\ \A old \in Published : \A new \in Published' :
             (old.id # 0 /\ new.id = old.id) => new = old
        /\ snapshot' # snapshot =>
             /\ last'.id # last.id /\ last'.ok
             /\ snapshot' = last'.fetched
             /\ snapshot'.id = last'.id
             /\ \A old \in Published : old.id # snapshot'.id
        /\ snapshot # NilSnapshot => snapshot' # NilSnapshot
      ]_vars

\* C25 witness: a scrape still holds the first snapshot, unchanged, after the
\* cache was replaced by the second fetch's snapshot and a third fetch failed
C25_Witness ==
    \E p \in Scrapers :
        /\ Done(p) /\ ret[p].snapshot.id = 1
        /\ snapshot.id = 2
        /\ last.id = 3 /\ ~last.ok /\ last.prev = snapshot

\* ------------------------------------------------ OTEL adapter: buildObservations
MaxRows == 2        \* each row list of a snapshot handed to buildObservations has at most this many rows

metricUp == "nvidia_cls_up"
metricScrapeDuration == "nvidia_cls_scrape_duration_seconds"
metricScrapeTimestamp == "nvidia_cls_scrape_timestamp_seconds"
metricEntitlementTotal == "nvidia_cls_entitlement_total_quantity"
metricServerInfo == "nvidia_cls_license_server_info"
metricServerFeatureTotal == "nvidia_cls_license_server_feature_total_quantity"
metricServerFeatureActive == "nvidia_cls_license_server_feature_active_leases"

\* safeLabel: a blank label becomes "unknown"
safeLabel(v) == IF TrimSpace(v) = "" THEN "unknown" ELSE TrimSpace(v)
\* strconv.Itoa
Itoa(n) == ToString(n)
\* attribute.String(key, value)
AttrString(key, value) == <<key, value>>

\* rows of the snapshots handed to buildObservations
EntitlementRows ==
    { [VirtualGroupID |-> 101, VirtualGroupName |-> "VG", FeatureName |-> "Feature A",
       TotalQuantity |-> 128] }
CapacityRows ==
    { [VirtualGroupID |-> 101, VirtualGroupName |-> "VG", ServerID |-> "srv-1",
       ServerName |-> "server-1", FeatureName |-> "Feature A", TotalQuantity |-> 128],
      [VirtualGroupID |-> 0, VirtualGroupName |-> " ", ServerID |-> "srv-2",
       ServerName |-> "", FeatureName |-> "", TotalQuantity |-> 0] }
FeatureActiveRows ==
    { [VirtualGroupID |-> 101, VirtualGroupName |-> "VG", ServerID |-> "srv-1",
       ServerName |-> "server-1", FeatureName |-> "Feature A", ActiveLeases |-> 19] }
UsageRows ==
    { [VirtualGroupID |-> 101, VirtualGroupName |-> "VG", ServerID |-> "srv-1",
       ServerName |-> "server-1", ServerStatus |-> "ENABLED", Allocated |-> 100,
       InUse |-> 19, Available |-> 81],
      [VirtualGroupID |-> 102, VirtualGroupName |-> "", ServerID |-> "srv-2",
       ServerName |-> " ", ServerStatus |-> "", Allocated |-> 0, InUse |-> 0,
       Available |-> 0] }
\* rows buildObservations does not read
ActiveRowLists ==
    { << >>, <<[VirtualGroupID |-> 101, VirtualGroupName |-> "VG", ServerID |-> "srv-1",
                ServerName |-> "server-1", ActiveLeases |-> 19]>> }
PoolRowLists ==
    { << >>, <<[VirtualGroupID |-> 101, VirtualGroupName |-> "VG", ServerID |-> "srv-1",
                ServerName |-> "server-1", PoolID |-> "p1", Allocated |-> 100, InUse |-> 10,
                Available |-> 90]>> }
ObservedSnapshots ==
    [EntitlementFeatures : SeqsUpTo(EntitlementRows, MaxRows),
     ServerFeatureCapacity : SeqsUpTo(CapacityRows, MaxRows),
     ServerFeatureActiveLeases : SeqsUpTo(FeatureActiveRows, MaxRows),
     ServerUsage : SeqsUpTo(UsageRows, MaxRows),
     ServerActiveLeases : ActiveRowLists,
     PoolUsage : PoolRowLists]
ObservedMetas ==
    { [Up |-> 1, DurationSeconds |-> 1, Timestamp |-> 2, CacheHit |-> FALSE],
      [Up |-> 0, DurationSeconds |-> 2, Timestamp |-> 1, CacheHit |-> FALSE],
      [Up |-> 1, DurationSeconds |-> 0, Timestamp |-> 3, CacheHit |-> TRUE] }
OrgNames == {"org-1", "org-2"}

\* meta.Timestamp.Unix(), on the integer clock
Unix(t) == t

\* the three health observations
HealthObservations(orgAttr, m) ==
    << [name |-> metricUp, value |-> m.Up, attrs |-> <<orgAttr>>],
       [name |-> metricScrapeDuration, value |-> m.DurationSeconds, attrs |-> <<orgAttr>>],
       [name |-> metricScrapeTimestamp, value |-> Unix(m.Timestamp), attrs |-> <<orgAttr>>] >>

\* the group and server attributes of a server-level row
ServerAttrs(orgAttr, item) ==
    << orgAttr,
       AttrString("virtual_group_id", Itoa(item.VirtualGroupID)),
       AttrString("virtual_group_name", safeLabel(item.VirtualGroupName)),
       AttrString("server_id", safeLabel(item.ServerID)),
       AttrString("server_name", safeLabel(item.ServerName)) >>

\* buildObservations (the attributes product_name, license_type, feature_version,
\* deployed_on and leasing_mode, which copy further row fields through safeLabel,
\* are left out)
buildObservationsSkipUsage(orgName, snap, m) ==
    LET orgAttr == AttrString("org_name", orgName)
    IN  HealthObservations(orgAttr, m)
        \o [i \in DOMAIN snap.EntitlementFeatures |->
              LET item == snap.EntitlementFeatures[i]
              IN  [name |-> metricEntitlementTotal, value |-> item.TotalQuantity,
                   attrs |-> << orgAttr,
                                AttrString("virtual_group_id", Itoa(item.VirtualGroupID)),
                                AttrString("virtual_group_name", safeLabel(item.VirtualGroupName)),
                                AttrString("feature_name", safeLabel(item.FeatureName)) >>]]
        \o [i \in DOMAIN snap.ServerFeatureCapacity |->
              LET item == snap.ServerFeatureCapacity[i]
              IN  [name |-> metricServerFeatureTotal, value |-> item.TotalQuantity,
                   attrs |-> ServerAttrs(orgAttr, item)
                             \o <<AttrString("feature_name", safeLabel(item.FeatureName))>>]]
        \o [i \in DOMAIN snap.ServerFeatureActiveLeases |->
              LET item == snap.ServerFeatureActiveLeases[i]
              IN  [name |-> metricServerFeatureActive, value |-> item.ActiveLeases,
                   attrs |-> ServerAttrs(orgAttr, item)
                             \o <<AttrString("feature_name", safeLabel(item.FeatureName))>>]]
buildObservations(orgName, snap, m) ==
    LET orgAttr == AttrString("org_name", orgName)
    IN  HealthObservations(orgAttr, m)
        \o [i \in DOMAIN snap.EntitlementFeatures |->
              LET item == snap.EntitlementFeatures[i]
              IN  [name |-> metricEntitlementTotal, value |-> item.TotalQuantity,
                   attrs |-> << orgAttr,
                                AttrString("virtual_group_id", Itoa(item.VirtualGroupID)),
                                AttrString("virtual_group_name", safeLabel(item.VirtualGroupName)),
                                AttrString("feature_name", safeLabel(item.FeatureName)) >>]]
        \o [i \in DOMAIN snap.ServerFeatureCapacity |->
              LET item == snap.ServerFeatureCapacity[i]
              IN  [name |-> metricServerFeatureTotal, value |-> item.TotalQuantity,
                   attrs |-> ServerAttrs(orgAttr, item)
                             \o <<AttrString("feature_name", safeLabel(item.FeatureName))>>]]
        \o [i \in DOMAIN snap.ServerFeatureActiveLeases |->
              LET item == snap.ServerFeatureActiveLeases[i]
              IN  [name |-> metricServerFeatureActive, value |-> item.ActiveLeases,
                   attrs |-> ServerAttrs(orgAttr, item)
                             \o <<AttrString("feature_name", safeLabel(item.FeatureName))>>]]
        \o [i \in DOMAIN snap.ServerUsage |->
              LET item == snap.ServerUsage[i]
              IN  [name |-> metricServerInfo, value |-> 1,
                   attrs |-> ServerAttrs(orgAttr, item)
                             \o <<AttrString("status", safeLabel(item.ServerStatus))>>]]

\* the registered callback got a snapshot from Latest() and builds the observations
BuildObservations ==
    /\ obsArgs # << >>
    /\ observations = << >>
    /\ observations' = buildObservations(obsArgs.orgName, obsArgs.snap, obsArgs.meta)
    /\ UNCHANGED <<serviceVars, fetchVars, obsArgs, environ, listenAddress, pusher>>

ObsNext == BuildObservations

\* one buildObservations call on any snapshot and Meta Latest() can hand over
ObsInit ==
    /\ NewService /\ ClientIdle(0) /\ AnyUpstream
    /\ obsArgs \in [orgName : OrgNames, snap : ObservedSnapshots, meta : ObservedMetas]
    /\ observations = << >>
    /\ environ = << >>
    /\ listenAddress = << >>
    /\ pusher = NewMetricsPusher

ObsSpec == ObsInit /\ [][ObsNext]_vars

\* the observations of one metric
Named(name) == {i \in DOMAIN observations : observations[i].name = name}
HasAttr(o, key, value) == \E i \in DOMAIN o.attrs : o.attrs[i] = AttrString(key, value)

\* C26: buildObservations returns exactly 3 health observations (up, scrape
\* duration, scrape timestamp, with the values of Meta) followed by one observation
\* per entitlement row, per server-feature-capacity row, per server-feature-active
\* row and per server-usage row (license-server info with value 1), and nothing
\* else; every observation carries the attribute org_name with the given org name.
C26_ObservationMapping ==
    observations # << >> =>
        LET snap == obsArgs.snap IN
        /\ Len(observations) = 3 + Len(snap.EntitlementFeatures) + Len(snap.ServerFeatureCapacity)
                                 + Len(snap.ServerFeatureActiveLeases) + Len(snap.ServerUsage)
        /\ Named(metricUp) = {1} /\ observations[1].value = obsArgs.meta.Up
        /\ Named(metricScrapeDuration) = {2}
        /\ observations[2].value = obsArgs.meta.DurationSeconds
        /\ Named(metricScrapeTimestamp) = {3}
        /\ observations[3].value = obsArgs.meta.Timestamp
        /\ Cardinality(Named(metricEntitlementTotal)) = Len(snap.EntitlementFeatures)
        /\ Cardinality(Named(metricServerFeatureTotal)) = Len(snap.ServerFeatureCapacity)
        /\ Cardinality(Named(metricServerFeatureActive)) = Len(snap.ServerFeatureActiveLeases)
        /\ Cardinality(Named(metricServerInfo)) = Len(snap.ServerUsage)
        /\ \A i \in Named(metricServerInfo) : observations[i].value = 1
        /\ \A i \in DOMAIN observations : HasAttr(observations[i], "org_name", obsArgs.orgName)

\* C26 witness: the mapping test's case with more rows: a snapshot with rows of
\* every kind (and rows buildObservations does not read) gives 3 + 1 + 2 + 1 + 2
\* observations, all with org_name
C26_Witness ==
    /\ observations # << >>
    /\ Len(obsArgs.snap.EntitlementFeatures) = 1
    /\ Len(obsArgs.snap.ServerFeatureCapacity) = 2
    /\ Len(obsArgs.snap.ServerFeatureActiveLeases) = 1
    /\ Len(obsArgs.snap.ServerUsage) = 2
    /\ obsArgs.snap.PoolUsage # << >> /\ obsArgs.snap.ServerActiveLeases # << >>
    /\ Len(observations) = 9
    /\ \A i \in DOMAIN observations : HasAttr(observations[i], "org_name", "org-1")

\* --------------------------------------------------- main: defaultListenAddress
MaxStr == 2         \* an environment value has at most this many characters

\* a string is the sequence of its characters
EnvChars == {" ", ":", "9"}
EnvValues == SeqsUpTo(EnvChars, MaxStr)     \* the empty string: unset or empty
Environments == [LISTEN_ADDRESS : EnvValues, PORT : EnvValues]
DefaultAddress == <<":", "9", "8", "4", "4">>

\* strings.TrimSpace on a sequence of characters
RECURSIVE TrimLeft(_)
TrimLeft(cs) == IF cs # << >> /\ Head(cs) = " " THEN TrimLeft(Tail(cs)) ELSE cs
RECURSIVE TrimRight(_)
TrimRight(cs) ==
    IF cs # << >> /\ cs[Len(cs)] = " " THEN TrimRight(SubSeq(cs, 1, Len(cs) - 1)) ELSE cs
TrimSpaceChars(cs) == TrimRight(TrimLeft(cs))
\* strings.HasPrefix
HasPrefix(cs, prefix) == Len(cs) >= Len(prefix) /\ SubSeq(cs, 1, Len(prefix)) = prefix

defaultListenAddressPortFirst(env) ==
    LET v == TrimSpaceChars(env.LISTEN_ADDRESS)
        port == TrimSpaceChars(env.PORT)
    IN  IF port # << >>
        THEN IF HasPrefix(port, <<":">>) THEN port ELSE <<":">> \o port
        ELSE IF v # << >> THEN v ELSE DefaultAddress
defaultListenAddress(env) ==
    LET v == TrimSpaceChars(env.LISTEN_ADDRESS)
        port == TrimSpaceChars(env.PORT)
    IN  IF v # << >> THEN v
        ELSE IF port # << >>
             THEN IF HasPrefix(port, <<":">>) THEN port ELSE <<":">> \o port
             ELSE DefaultAddress

\* main declares the flag listen-address with defaultListenAddress() as its default
DeclareListenAddress ==
    /\ environ # << >>
    /\ listenAddress = << >>
    /\ listenAddress' = defaultListenAddress(environ)
    /\ UNCHANGED <<serviceVars, fetchVars, obsArgs, observations, environ, pusher>>

ListenNext == DeclareListenAddress

\* the process starts in any environment
ListenInit ==
    /\ NewService /\ ClientIdle(0) /\ AnyUpstream
    /\ obsArgs = << >>
    /\ observations = << >>
    /\ environ \in Environments
    /\ listenAddress = << >>
    /\ pusher = NewMetricsPusher

ListenSpec == ListenInit /\ [][ListenNext]_vars

\* a value that is empty or made of white space only
Blank(cs) == \A i \in DOMAIN cs : cs[i] = " "
\* a non-blank value without the white space around it
Core(cs) ==
    LET solid == {i \in DOMAIN cs : cs[i] # " "}
        first == CHOOSE i \in solid : \A j \in solid : i <= j
        final == CHOOSE i \in solid : \A j \in solid : j <= i
    IN  SubSeq(cs, first, final)

\* C27: defaultListenAddress precedence.  A non-blank LISTEN_ADDRESS (without the
\* white space around it) is the result whatever PORT says; otherwise a non-blank
\* PORT (without the white space around it) gives ":" followed by it, or itself
\* when it already begins with ":"; otherwise the result is ":9844".
C27_ListenAddressPrecedence ==
    listenAddress # << >> =>
        LET la == environ.LISTEN_ADDRESS
            port == environ.PORT
        IN  /\ ~Blank(la) => listenAddress = Core(la)
            /\ (Blank(la) /\ ~Blank(port) /\ Core(port)[1] = ":") => listenAddress = Core(port)
            /\ (Blank(la) /\ ~Blank(port) /\ Core(port)[1] # ":") =>
                    listenAddress = <<":">> \o Core(port)
            /\ (Blank(la) /\ Blank(port)) => listenAddress = DefaultAddress

\* C27 witness: LISTEN_ADDRESS and PORT are both set, PORT without a colon, and
\* the result is LISTEN_ADDRESS without its leading blank
C27_Witness ==
    /\ environ # << >>
    /\ environ.LISTEN_ADDRESS = <<" ", ":">>
    /\ environ.PORT = <<"9", "9">>
    /\ listenAddress = <<":">>

\* C28: the coalesced fetch runs under the context of the caller that started it.
\* The context handed to FetchSnapshot is the owner's, never a waiter's: a fetch
\* succeeds only before the owner's deadline, and fails as cancelled only once
\* the owner's deadline has passed, whatever the deadlines of the waiters.  When
\* the owner's context ends the fetch, every caller coalesced on it gets the
\* owner's outcome, the fetch's error when nothing was cached and the cached
\* snapshot with Up=0 otherwise, whether or not its own context is still live.
C28_FetchUnderOwnerContext ==
    /\ \A p \in Callers : pc[p] = "fetching" => (CtxPassed(p) = p /\ nfetch[p] = 1)
    /\ last.id # 0 =>
         /\ last.ok => last.duration < ScrapeTimeout
         /\ last.cancelled => (~last.ok /\ last.duration >= ScrapeTimeout)
    /\ \A p \in Callers :
         (Served(p) /\ CallOf(p).cancelled) =>
            /\ ~CallOf(p).ok
            /\ CallOf(p).prev = NilSnapshot =>
                 (ret[p].err = myCall[p] /\ ret[p].snapshot = NilSnapshot)
            /\ CallOf(p).prev # NilSnapshot =>
                 (ret[p].err = NoErr /\ ret[p].snapshot = CallOf(p).prev /\ ret[p].meta.Up = 0)
            /\ \A q \in Callers : (Done(q) /\ myCall[q] = myCall[p]) => ret[q] = ret[p]

\* C28 witness: the owner's deadline passed and ended the fetch; a waiter whose own
\* deadline has not passed returned the same error as the owner
C28_Witness ==
    \E q, p \in Callers :
        /\ Done(q) /\ nfetch[q] = 1 /\ CtxDone(q)
        /\ Done(p) /\ nfetch[p] = 0 /\ myCall[p] = myCall[q] /\ myCall[p] # 0
        /\ ~CtxDone(p) /\ deadline[p] > now
        /\ CallOf(p).cancelled
        /\ ret[p].err # NoErr /\ ret[p] = ret[q]

\* closures that were handed to errgroup's Go and have not returned
Unfinished(ph) == {t \in Tasks(ph) : tstate[ph][t] \in {"running", "processing"}}
\* phases in which a sub-fetch failed (1: the group list)
FailedPhases == {failOrder[i].phase : i \in DOMAIN failOrder}

\* C29: FetchSnapshot outlives its tasks.  When FetchSnapshot has returned, with
\* a snapshot or with an error, every closure of every phase it started has
\* returned: none is waiting to be started, none has a request in flight and none
\* is still adding to the shared accumulators; and once a sub-fetch of a phase has
\* failed no closure of a later phase exists or is ever started.
C29_ReturnsAfterItsTasks ==
    /\ result.returned =>
         /\ fpc = "returned"
         /\ \A ph \in Phases : Unfinished(ph) = {} /\ Pending(ph) = {}
         /\ \A ph \in Phases : \A t \in Tasks(ph) : tstate[ph][t] \in {"ok", "failed"}
         /\ \A t \in DOMAIN todo : todo[t] = << >> \/ tstate[3][t] = "failed"
    /\ \A ph \in FailedPhases : \A later \in Phases : later > ph => Tasks(later) = {}
    /\ \A ph \in Phases : groupErr[ph] # NilError => \A later \in Phases :
                                                         later > ph => Tasks(later) = {}

\* C29 witness: FetchSnapshot returned the error of a failed active-lease request
\* only after the other closure of that phase had counted the leases of its
\* response, and no pool closure was ever created
C29_Witness ==
    /\ result.returned /\ result.err = ErrorOf(3, 1)
    /\ Cardinality(Tasks(3)) = 2
    /\ tstate[3][1] = "failed" /\ tstate[3][2] = "ok"
    /\ Len(offered) = MaxLeases
    /\ Tasks(4) = {}

\* the request each closure makes: no two closures of a phase make the same one
DistinctRequests ==
    /\ \A i, j \in Tasks(2) : i # j => work[2][i].vg.ID # work[2][j].vg.ID
    /\ \A i, j \in Tasks(3) : i # j => work[3][i] # work[3][j]
    /\ \A i, j \in Tasks(4) :
         i # j => <<work[4][i].vg.ID, work[4][i].server.ID>>
                    # <<work[4][j].vg.ID, work[4][j].server.ID>>

\* C30: the Fetcher never retries.  The group list is requested once, and a
\* failure of it ends the call; the closures of a phase are one per group (server
\* list), one per group and distinct service instance (active leases) and one per
\* group and server (pools), they are fixed once the phase begins, and in every
\* step a closure whose request has been issued is never handed to Go again and
\* never issues a second request, whether the first one succeeded or failed.
C30_NoRetry ==
    [][ /\ DistinctRequests /\ DistinctRequests'
        /\ fpc \notin {"idle", "groups"} => fpc' \notin {"idle", "groups"}
        /\ (fpc = "groups" /\ failOrder' # failOrder) => (fpc' = "returned" /\ result'.returned)
        /\ \A ph \in Phases :
             /\ work[ph] # << >> => work'[ph] = work[ph]
             /\ \A t \in Tasks(ph) :
                  /\ tstate[ph][t] # "pending" => tstate'[ph][t] # "pending"
                  /\ tstate[ph][t] \in {"processing", "ok", "failed"} =>
                        tstate'[ph][t] # "running"
                  /\ tstate[ph][t] \in {"ok", "failed"} => tstate'[ph][t] = tstate[ph][t]
      ]_vars

\* C30 witness: both server-list requests failed, neither was issued again, and
\* FetchSnapshot returned the error of the one that failed first
C30_Witness ==
    /\ result.returned /\ result.err = ErrorOf(2, 2)
    /\ Len(failOrder) = 2
    /\ tstate[2] = <<"failed", "failed">>
    /\ Tasks(3) = {}

\* ------------------------------------------------------ claims C31 .. C39

\* the callers that are inside Fetcher.FetchSnapshot
Fetching == {p \in Callers : pc[p] = "fetching"}

\* C31: at most one FetchSnapshot call is in progress, whatever the callers do:
\* a call in progress is the one registered in the coalescer and the youngest
\* call made; so commits come in the order the fetches started, and a fetch that
\* replaces the cached snapshot started after the fetch that had produced it.
C31_OneFetchAtATime ==
    /\ Cardinality(Fetching) <= 1
    /\ \A p \in Fetching : myCall[p] = sfm /\ myCall[p] = fetcherCalls /\ last.id < myCall[p]
    /\ snapshot.id <= last.id
    /\ last.ok => last.prev.id < last.fetched.id /\ snapshot = last.fetched
    /\ last.id # 0 => last.prev.id < last.id

\* C31 witness: two callers wait on the third fetch while its owner is inside
\* FetchSnapshot, and the snapshot of the second fetch has replaced that of the first
C31_Witness ==
    /\ Cardinality(Fetching) = 1
    /\ Cardinality({p \in Callers : pc[p] = "waiting" /\ myCall[p] = sfm}) = 2
    /\ sfm = 3
    /\ last.ok /\ last.prev.id = 1 /\ snapshot.id = 2

\* C32: the committed Meta.  Whenever a snapshot is cached, Meta.Timestamp is
\* that snapshot's collection time; and the committed Meta never has CacheHit
\* set, which only the copy returned by a cache-hit Get carries.
C32_CommittedMeta ==
    /\ snapshot # NilSnapshot => meta.Timestamp = snapshot.CollectedAt
    /\ meta.CacheHit = FALSE
    /\ \A p \in Callers : (Done(p) /\ ret[p].meta.CacheHit) => (myCall[p] = 0 /\ p \in Scrapers)

\* C32 witness: a Get holds a cache-hit copy of the Meta committed by a failed
\* refresh, over a snapshot that was collected before it was committed
C32_Witness ==
    /\ snapshot # NilSnapshot /\ snapshot.CollectedAt < cachedAt
    /\ meta.Up = 0 /\ last.at > cachedAt
    /\ \E p \in Scrapers : Done(p) /\ ret[p].meta.CacheHit /\ ret[p].meta.Timestamp = meta.Timestamp

\* a Get in progress that was issued after a refresh had failed and when the TTL
\* since the last successful commit had elapsed
AfterFailure(p) == p \in Scrapers /\ pc[p] # "idle" /\ seen[p].failed # 0

\* C33 (as stated): a failed fetch leaves the cached snapshot as it was, and every
\* Get issued after a failed refresh, once the TTL since the last successful
\* commit has elapsed, triggers a new fetch: it is served by a fetch younger than
\* the refresh that failed.
C33_GetTriggersNewFetch ==
    /\ (last.id # 0 /\ ~last.ok) => snapshot = last.prev
    /\ \A p \in Scrapers :
         AfterFailure(p) =>
            /\ Done(p) => myCall[p] # 0
            /\ myCall[p] # 0 => myCall[p] > seen[p].failed

\* such a Get is never served from the cache; the call that serves it is one it
\* starts, younger than the failed refresh, or one it finds registered in the
\* coalescer, which can be the failed refresh itself
NotFromCache(p) ==
    /\ Done(p) => (myCall[p] # 0 /\ ret[p].meta.CacheHit = FALSE)
    /\ myCall[p] # 0 => myCall[p] >= seen[p].failed
    /\ nfetch[p] = 1 => myCall[p] > seen[p].failed
    /\ (myCall[p] # 0 /\ nfetch[p] = 0) => window[p] = myCall[p]

\* C33, what holds of it: a failed fetch changes neither the cached snapshot nor
\* the cache timestamp, only the committed Meta; the cache timestamp changes only
\* when a fetch succeeds.  A Get issued after a failed refresh, once the TTL since
\* the last successful commit has elapsed, is never served from the cache: it
\* calls Refresh, which starts a new fetch unless a call is still registered in
\* the coalescer, which the Get then joins.
C33_FailureNeverRenews ==
    [][ /\ (last' # last /\ ~last'.ok) =>
            /\ snapshot' = snapshot /\ cachedAt' = cachedAt
            /\ meta' = StaleMetaOf(snapshot, last'.duration) \/ snapshot = NilSnapshot
        /\ cachedAt' # cachedAt => (last' # last /\ last'.ok /\ cachedAt' = now)
        /\ \A p \in Scrapers :
             /\ (pc[p] = "idle" /\ pc'[p] # "idle" /\ snapshot # NilSnapshot
                   /\ last.id # 0 /\ ~last.ok /\ now - cachedAt >= CacheTTL) =>
                      (pc'[p] = "refresh" /\ seen'[p].failed = last.id)
             /\ AfterFailure(p)' => NotFromCache(p)'
      ]_vars

\* C34: a Get served from the cache returns the cached snapshot and the Meta
\* committed at that moment, with CacheHit set and DurationSeconds zeroed and
\* nothing else changed: Up and Timestamp are those of Meta().  So it returns
\* Up=0 with the last-good snapshot when the fetch that settled last failed, and
\* Up=1 only when the fetch that settled last succeeded.
C34_CacheHitCarriesCommittedMeta ==
    [][ \A p \in Scrapers :
          (pc[p] = "idle" /\ pc'[p] = "done") =>
             /\ ret'[p].err = NoErr
             /\ ret'[p].snapshot = snapshot
             /\ ret'[p].meta.Up = Meta.Up
             /\ ret'[p].meta.Timestamp = Meta.Timestamp
             /\ ret'[p].meta = [Meta EXCEPT !.CacheHit = TRUE, !.DurationSeconds = 0]
             /\ Meta' = Meta
             /\ (last.id # 0 /\ ~last.ok) =>
                    (ret'[p].meta.Up = 0 /\ ret'[p].snapshot = last.prev)
             /\ ret'[p].meta.Up = 1 => last.ok
      ]_vars

\* C34 witness: within the TTL of the last good commit a refresh that took time
\* failed, and a Get has been served from the cache with Up=0
C34_Witness ==
    \E p \in Scrapers :
        /\ Done(p) /\ myCall[p] = 0 /\ ret[p].meta.CacheHit
        /\ ret[p].meta.Up = 0 /\ ret[p].meta.DurationSeconds = 0
        /\ ret[p].snapshot = last.prev /\ ret[p].snapshot # NilSnapshot
        /\ ~last.ok /\ last.duration > 0 /\ now - cachedAt < CacheTTL

\* the sum of ActiveLeases over a set of rows
RECURSIVE SumActiveLeases(_)
SumActiveLeases(rows) ==
    IF rows = {} THEN 0
    ELSE LET r == CHOOSE x \in rows : TRUE
         IN  r.ActiveLeases + SumActiveLeases(rows \ {r})

\* C35: in every snapshot FetchSnapshot returns, ActiveLeaseTotal is the sum of
\* ActiveLeases over the ServerFeatureActiveLeases rows, whatever the upstream
\* answered and in whatever order the phase-3 closures handled their leases;
\* between two locked sections the grand total is the sum of the per-feature
\* totals, and there is one row per key of those totals.
C35_TotalIsSumOfFeatureRows ==
    /\ total = SumActiveLeases(FeatureActiveLeaseRows(featureTotals))
    /\ Cardinality(FeatureActiveLeaseRows(featureTotals)) = Cardinality(DOMAIN featureTotals)
    /\ fpc \in {"pools", "returned"} /\ newSnapshot.nonNil /\ groupErr[3] = NilError =>
         /\ newSnapshot.ActiveLeaseTotal = total
         /\ newSnapshot.ActiveLeaseTotal = SumActiveLeases(newSnapshot.ServerFeatureActiveLeases)
    /\ (result.returned /\ result.err = NilError) =>
         result.snapshot.ActiveLeaseTotal = SumActiveLeases(result.snapshot.ServerFeatureActiveLeases)

\* C35 witness: a snapshot was returned whose two feature rows add up to a total
\* of 5, after two service-instance closures handled four leases, one of them a
\* duplicate
C35_Witness ==
    /\ result.returned /\ result.err = NilError
    /\ Cardinality(Tasks(3)) = 2
    /\ Len(offered) = 4 /\ \E i \in DOMAIN offered : ~offered[i].counted
    /\ Cardinality(result.snapshot.ServerFeatureActiveLeases) = 2
    /\ result.snapshot.ActiveLeaseTotal = 5

\* ------------------------------------------- one upstream, every schedule
\* leases for the upstream whose answers are fixed: the first two carry the same
\* lease id for different servers and with different counts, the first and the
\* third are two leases of one server
RepeatedLeaseRecords ==
    { [LicenseServerID |-> "srv-1", LeaseID |-> "L1", LeaseCount |-> 3, FeatureName |-> "GRID"],
      [LicenseServerID |-> "srv-2", LeaseID |-> "L1", LeaseCount |-> 1, FeatureName |-> "GRID"],
      [LicenseServerID |-> "srv-1", LeaseID |-> "L2", LeaseCount |-> 1, FeatureName |-> "GRID"] }
ServiceInstances == {"si-1", "si-2"}

\* the fixed upstreams: group 1 with one or both of its servers, an active-lease
\* response per service instance that is listed, one pool list for every server
Upstreams ==
    {u \in [groups : {<<Group1>>},
            servers : {[g \in {1} |-> l] : l \in ServerLists(1)},
            leases : [ServiceInstances -> SeqsUpTo(RepeatedLeaseRecords, MaxLeases)],
            pools : {[s \in {"srv-1", "srv-2"} |-> l] : l \in {<<Pool1>>, <<Pool1, Pool2>>}}] :
        \A si \in ServiceInstances \ ServiceInstanceIDs(u.servers[1]) : u.leases[si] = << >>}

\* one FetchSnapshot call against an upstream whose answers are fixed
DetInit ==
    /\ NewService /\ NotStarted /\ ClientIdle(0)
    /\ upstream \in Upstreams

DetSpec == DetInit /\ [][FetchNext]_vars

\* the leases of the fixed responses, in the order of the closures and, within a
\* response, in its order: each with the group of its closure
RECURSIVE LeasesFrom(_)
LeasesFrom(t) ==
    IF t > Len(work[3]) THEN << >>
    ELSE [i \in DOMAIN upstream.leases[work[3][t].si] |->
            [vg |-> work[3][t].vg, lease |-> upstream.leases[work[3][t].si][i]]]
         \o LeasesFrom(t + 1)

NoTotals == [seenLeaseIDs |-> {}, serverTotals |-> EmptyMap, featureTotals |-> EmptyMap,
             total |-> 0]
RECURSIVE AccumulateAll(_, _)
AccumulateAll(acc, items) ==
    IF items = << >> THEN acc
    ELSE AccumulateAll(Accumulate(acc, Head(items).vg, serversByVG[Head(items).vg],
                                  Head(items).lease),
                       Tail(items))

\* the totals when the closures run one after the other
OneByOne == AccumulateAll(NoTotals, LeasesFrom(1))

\* FetchSnapshot returned a snapshot, and it carries what the closures make of the
\* fixed responses when they run one after the other
SameAsOneByOne ==
    /\ serverTotals = OneByOne.serverTotals
    /\ featureTotals = OneByOne.featureTotals
    /\ total = OneByOne.total
    /\ result.snapshot.ActiveLeaseTotal = OneByOne.total
    /\ result.snapshot.ServerActiveLeases
         = ServerActiveLeaseRows(serversByVG, OneByOne.serverTotals)
    /\ result.snapshot.ServerFeatureActiveLeases = FeatureActiveLeaseRows(OneByOne.featureTotals)
    /\ {result.snapshot.ServerUsage[i] : i \in DOMAIN result.snapshot.ServerUsage}
         = {ServerUsageRow(work[4][t].server, upstream.pools[work[4][t].server.ID],
                           OneByOne.serverTotals) : t \in Tasks(4)}
    /\ Len(result.snapshot.ServerUsage) = Len(work[4])

Succeeded == upstream # << >> /\ result.returned /\ result.err = NilError

LeasesAgree ==
    LET items == LeasesFrom(1)
        Resolved(x) == ResolveServer(x.lease, serversByVG[x.vg])
    IN  \A i, j \in DOMAIN items :
            ( /\ TrimSpace(items[i].lease.LeaseID) # ""
              /\ TrimSpace(items[i].lease.LeaseID) = TrimSpace(items[j].lease.LeaseID) ) =>
                /\ Resolved(items[i]) = Resolved(items[j])
                /\ NormalizeLeaseCount(items[i].lease.LeaseCount)
                     = NormalizeLeaseCount(items[j].lease.LeaseCount)
                /\ FeatureKey(items[i].vg, serversByVG[items[i].vg], Resolved(items[i]),
                              items[i].lease)
                     = FeatureKey(items[j].vg, serversByVG[items[j].vg], Resolved(items[j]),
                                  items[j].lease)

FetchesLeft == fetcherCalls + Cardinality({p \in Callers : pc[p] = "refresh"}) <= MaxFetches

\* the steps of a call in progress, up to its return
Proceed(p) ==
    \/ p \in Scrapers /\ GetJoin(p)
    \/ p \in Scrapers /\ GetStart(p)
    \/ FetchOk(p)
    \/ FetchFail(p)
    \/ SfFinish(p)
    \/ SfWake(p)

\* Time bears on a call only through the age of the cached snapshot, which Get
\* compares with the TTL: here the clock advances between calls, over a cached
\* snapshot, and stands still while a call is in progress.
Ageing == Tick /\ snapshot # NilSnapshot /\ \A p \in Callers : pc[p] = "idle"

LiveNext ==
    \/ Ageing
    \/ \E p \in Scrapers : Collect(p) /\ FetchesLeft'
    \/ refreshOnceJoin
    \/ refreshOnceStart /\ FetchesLeft'
    \/ \E p \in Callers : Proceed(p)
    \/ \E p \in Callers : Return(p)
    \/ Callback

\* The goroutine of a caller is scheduled again and again, and the Fetcher call of
\* an owner returns (every upstream request returns, and FetchSnapshot waits for
\* nothing else): a step of a call in progress that stays possible is taken.
LiveSpec ==
    /\ Init
    /\ [][LiveNext]_vars
    /\ \A p \in Callers : WF_vars(Proceed(p))

\* C37: termination.  Every Get and Refresh caller eventually returns, whether it
\* owns the fetch or waits on it; a call that is marked done is no longer
\* registered in the coalescer, the registration of every call is eventually
\* removed, and a Refresh that finds none registered waits on nothing.
C37_Termination ==
    /\ \A p \in Callers : (pc[p] # "idle") ~> (pc[p] = "done")
    /\ (sfm # 0) ~> (sfm = 0)
    /\ [](\A c \in FetchIds : sfcall[c].done => sfm # c)
    /\ [](\A p \in Callers : (pc[p] = "waiting" /\ ~sfcall[myCall[p]].done) => sfm = myCall[p])

\* C37 witness: a caller that waited on the first fetch has returned, the first
\* call is no longer registered, and the Refresh issued afterwards is inside the
\* second fetch
C37_Witness ==
    /\ sfm = 2 /\ pc[Pusher] = "fetching" /\ myCall[Pusher] = 2
    /\ \E p \in Scrapers : Done(p) /\ myCall[p] = 1 /\ nfetch[p] = 0 /\ sfcall[1].done

\* The goroutines of FetchSnapshot and of its closures are scheduled, and every
\* upstream request returns, with a response or with an error: a step of the call
\* is taken as long as one is possible.
FetchLiveSpec == FetchInit /\ [][FetchNext]_vars /\ WF_vars(FetchNext)

\* C37, the Fetcher's part: every FetchSnapshot call returns
FetchTerminates == (fpc # "idle") ~> (fpc = "returned" /\ result.returned)

\* ---------------------------------------------------------------------------
\* the push loop: MetricsPusher.Start, refreshOnce and Shutdown
\* ---------------------------------------------------------------------------

\* Shutdown that does not wait for the loop
DoneClosedUnwaited == TRUE

\* case <-p.done of Shutdown's select: the loop's deferred close(p.done) has run
DoneClosed == pusher.done

\* the loop goroutine is parked: in the upstream fetch of its Refresh, or in its
\* select with neither case ready, or it does not run
LoopBlocked ==
    \/ pusher.loop \in {"new", "exited"}
    \/ pusher.loop = "refreshOnce" /\ pc[Pusher] = "fetching"
    \/ pusher.loop = "select" /\ ~pusher.cancelled /\ pusher.tick = 0

\* the goroutine calling Shutdown is parked: in its select with done still open,
\* or inside meterProvider.Shutdown, or it does not run
ShutdownBlocked ==
    \/ pusher.shutdown \in {"no", "returned", "provider"}
    \/ pusher.shutdown = "select" /\ ~DoneClosed

\* Start: p.cancel is set and the goroutine begins; its first statement after the
\* deferred close is refreshOnce
Start ==
    /\ pusher.loop = "new"
    /\ pusher' = [pusher EXCEPT !.loop = "first"]
    /\ UNCHANGED <<serviceVars, fetchVars, obsArgs, observations, environ, listenAddress>>

\* the loop calls refreshOnce: once on entry, once for each tick it received
CallRefreshOnce ==
    /\ pusher.loop \in {"first", "tick"}
    /\ pusher.issued < MaxFetches
    /\ pusher' = [pusher EXCEPT !.loop = "refreshOnce", !.issued = @ + 1]
    /\ UNCHANGED <<serviceVars, fetchVars, obsArgs, observations, environ, listenAddress>>

\* refreshOnce calls snapshotSvc.Refresh under its own timeout context
PushRefresh ==
    /\ pusher.loop = "refreshOnce"
    /\ fetcherCalls < pusher.issued
    /\ refreshOnceStart

\* Refresh has returned to refreshOnce, which logs a failure and returns; after
\* the first refreshOnce the loop creates its ticker and enters the select
RefreshOnceReturns ==
    /\ pusher.loop = "refreshOnce"
    /\ pc[Pusher] = "idle"
    /\ fetcherCalls = pusher.issued
    /\ pusher' = [pusher EXCEPT !.loop = "select", !.ticking = TRUE]
    /\ UNCHANGED <<serviceVars, fetchVars, obsArgs, observations, environ, listenAddress>>

\* a push interval has passed: the ticker puts a tick into ticker.C, whose buffer
\* holds one tick, so a tick that finds the buffer full is dropped
TickerFires ==
    /\ pusher.ticking
    /\ LoopBlocked /\ ShutdownBlocked
    /\ pusher' = [pusher EXCEPT !.tick = 1]
    /\ UNCHANGED <<serviceVars, fetchVars, obsArgs, observations, environ, listenAddress>>

\* case <-ticker.C of the loop's select (chosen at random when ctx.Done() is
\* ready as well)
ServeTick ==
    /\ pusher.loop = "select"
    /\ pusher.tick = 1
    /\ pusher' = [pusher EXCEPT !.loop = "tick", !.tick = 0, !.served = @ + 1]
    /\ UNCHANGED <<serviceVars, fetchVars, obsArgs, observations, environ, listenAddress>>

\* case <-ctx.Done() of the loop's select: return, and the deferred calls stop
\* the ticker and close p.done
LoopExit ==
    /\ pusher.loop = "select"
    /\ pusher.cancelled
    /\ pusher' = [pusher EXCEPT !.loop = "exited", !.ticking = FALSE, !.done = TRUE]
    /\ UNCHANGED <<serviceVars, fetchVars, obsArgs, observations, environ, listenAddress>>

\* Shutdown up to its select: main calls it after Start with a context it has
\* just created; p.cancel() cancels the loop's context
Shutdown ==
    /\ pusher.loop # "new"
    /\ pusher.shutdown = "no"
    /\ pusher' = [pusher EXCEPT !.cancelled = TRUE, !.shutdown = "select"]
    /\ UNCHANGED <<serviceVars, fetchVars, obsArgs, observations, environ, listenAddress>>

\* the timeout of Shutdown's context runs out while every goroutine is parked; a
\* Shutdown waiting in its select takes case <-ctx.Done() and returns ctx.Err()
ShutdownCtxExpires ==
    /\ pusher.shutdown \in {"select", "provider"}
    /\ ~pusher.expired
    /\ LoopBlocked /\ ShutdownBlocked
    /\ pusher' = [pusher EXCEPT !.expired = TRUE,
                                !.early = ~pusher.done,
                                !.shutdown = IF pusher.shutdown = "select" THEN "returned" ELSE @,
                                !.err = IF pusher.shutdown = "select" THEN "ctx" ELSE @]
    /\ UNCHANGED <<serviceVars, fetchVars, obsArgs, observations, environ, listenAddress>>

\* case <-p.done of Shutdown's select: go on to meterProvider.Shutdown(ctx)
ShutdownSeesDone ==
    /\ pusher.shutdown = "select"
    /\ DoneClosed
    /\ pusher' = [pusher EXCEPT !.shutdown = "provider"]
    /\ UNCHANGED <<serviceVars, fetchVars, obsArgs, observations, environ, listenAddress>>

\* return p.meterProvider.Shutdown(ctx): the SDK's result, whatever it is
ProviderShutdown ==
    /\ pusher.shutdown = "provider"
    /\ \E e \in {"nil", "provider"} \cup (IF pusher.expired THEN {"ctx"} ELSE {}) :
          pusher' = [pusher EXCEPT !.shutdown = "returned", !.err = e]
    /\ UNCHANGED <<serviceVars, fetchVars, obsArgs, observations, environ, listenAddress>>

\* the pusher alone: its loop, its Shutdown, and the Service steps of its Refresh
PushNext ==
    \/ Start
    \/ CallRefreshOnce
    \/ PushRefresh
    \/ FetchOk(Pusher)
    \/ FetchFail(Pusher)
    \/ SfFinish(Pusher)
    \/ Return(Pusher)
    \/ RefreshOnceReturns
    \/ TickerFires
    \/ ServeTick
    \/ LoopExit
    \/ Shutdown
    \/ ShutdownCtxExpires
    \/ ShutdownSeesDone
    \/ ProviderShutdown
    \/ Tick

PushSpec == Init /\ [][PushNext]_vars

\* what holds of the pusher in every state
PushLoopState ==
    \* one Refresh at once on entry, then one for each tick received (in "first"
    \* and "tick" the call that is due has not been made yet)
    /\ pusher.issued = pusher.served + (IF pusher.loop \in {"new", "first"} THEN 0 ELSE 1)
                                      - (IF pusher.loop = "tick" THEN 1 ELSE 0)
    /\ pusher.loop = "first" => (pusher.served = 0 /\ pusher.tick = 0 /\ ~pusher.ticking)
    \* never two at the same time: the pusher's Refresh runs inside the one
    \* refreshOnce call the loop has open
    /\ pc[Pusher] # "idle" => (pusher.loop = "refreshOnce" /\ fetcherCalls = pusher.issued)
    /\ fetcherCalls \in {pusher.issued - 1, pusher.issued} \cap Nat
    \* the loop leaves only on cancellation, and closes done as it leaves
    /\ pusher.done <=> pusher.loop = "exited"
    /\ pusher.loop = "exited" => pusher.cancelled
    \* nil is returned only after the loop has exited
    /\ (pusher.shutdown = "returned" /\ pusher.err = "nil") => pusher.loop = "exited"
    \* the context expired with the loop still running: Shutdown returns its error
    /\ pusher.early => (pusher.shutdown = "returned" /\ pusher.err = "ctx")

\* once the loop has observed the cancellation it serves no tick and issues no
\* Refresh
PushLoopStops ==
    pusher.loop = "exited" =>
        /\ pusher.loop' = "exited"
        /\ pusher.served' = pusher.served
        /\ pusher.issued' = pusher.issued
        /\ fetcherCalls' = fetcherCalls
        /\ pc'[Pusher] = "idle"

\* C38: after Start the pusher issues one Refresh immediately and then one per
\* tick its loop receives, never two at the same time; once the loop has observed
\* the cancellation no tick is served and no Refresh is issued; Shutdown returns
\* nil only after the loop has exited; and when Shutdown's context expires with
\* the loop still running, Shutdown returns that context's error.
C38_PushLoopLifecycle == [](PushLoopState) /\ [][PushLoopStops]_vars

\* C38 witness: the loop refreshed on entry and once more for a tick, a later
\* tick was still buffered when the loop observed the cancellation and was never
\* served, and Shutdown returned nil
C38_Witness ==
    /\ pusher.loop = "exited"
    /\ pusher.issued = 2 /\ pusher.served = 1
    /\ pusher.tick = 1
    /\ pusher.shutdown = "returned" /\ pusher.err = "nil"

\* the other way out of Shutdown: its context expired while the loop was still
\* inside a Refresh
ShutdownTimedOut ==
    /\ pusher.early /\ pusher.err = "ctx"
    /\ pusher.loop = "refreshOnce" /\ pc[Pusher] = "fetching"

\* ------------------------------------------- rows of a successful snapshot

\* the rows of a list that belong to one server of one group
RowsOf(rows, g, id) ==
    {i \in DOMAIN rows : rows[i].VirtualGroupID = g /\ rows[i].ServerID = id}

\* the list has exactly what the listings call for: one server-usage row for
\* the server, one capacity row for each feature it declares, one pool-usage row
\* for each pool feature its pool listing carries
RowsForServer(snap, g, server) ==
    LET pools == upstream.pools[server.ID]
        features == server.LicenseServerFeatures
    IN  /\ Cardinality(RowsOf(snap.ServerUsage, g, server.ID)) = 1
        /\ Cardinality(RowsOf(snap.ServerFeatureCapacity, g, server.ID)) = Len(features)
        /\ \A k \in DOMAIN features :
             Cardinality({i \in RowsOf(snap.ServerFeatureCapacity, g, server.ID) :
                             snap.ServerFeatureCapacity[i].FeatureName = features[k].FeatureName
                          /\ snap.ServerFeatureCapacity[i].TotalQuantity = features[k].TotalQuantity}) = 1
        /\ Cardinality(RowsOf(snap.PoolUsage, g, server.ID)) = Len(pools)
        /\ \A k \in DOMAIN pools :
             Cardinality({i \in RowsOf(snap.PoolUsage, g, server.ID) :
                             snap.PoolUsage[i].PoolID = pools[k].PoolID
                          /\ snap.PoolUsage[i].Allocated = pools[k].TotalAllotment}) = 1

\* the servers the phase-2 listings returned, group by group
ListedPairs ==
    UNION {{<<upstream.groups[gi].ID, upstream.servers[upstream.groups[gi].ID][j]>> :
               j \in DOMAIN upstream.servers[upstream.groups[gi].ID]} :
           gi \in DOMAIN upstream.groups}

\* C39: a successful snapshot has exactly one server-usage row for each
\* (group, server) pair the server listings returned, one capacity row for each
\* feature such a server declares and one pool-usage row for each pool feature
\* of such a server, and no rows besides: the concurrent appends lose none and
\* duplicate none.
C39_RowsExactlyOnce ==
    Succeeded =>
        LET snap == result.snapshot IN
        /\ \A ls \in ListedPairs : RowsForServer(snap, ls[1], ls[2])
        /\ Len(snap.ServerUsage) = Cardinality(ListedPairs)
        /\ Len(snap.ServerFeatureCapacity)
             = SeqSum([j \in DOMAIN upstream.servers[1] |->
                          Len(upstream.servers[1][j].LicenseServerFeatures)])
        /\ Len(snap.PoolUsage)
             = SeqSum([j \in DOMAIN upstream.servers[1] |->
                          Len(upstream.pools[upstream.servers[1][j].ID])])

\* C39 witness: two servers with two pool features each; the closure of the
\* second server appended its rows first, and every row is there once
C39_Witness ==
    /\ Succeeded
    /\ Len(upstream.servers[1]) = 2
    /\ Len(result.snapshot.ServerUsage) = 2
    /\ result.snapshot.ServerUsage[1].ServerID = "srv-2"
    /\ Len(result.snapshot.PoolUsage) = 4
    /\ result.snapshot.PoolUsage[1].ServerID = "srv-2"
    /\ Len(result.snapshot.ServerFeatureCapacity) = 1

====
